---- MODULE Spec2Model ----
(***************************************************************************)
(* A model of the paks CLI: the install pipeline                           *)
(* (apps/cli/src/commands/install.rs) and the publish pipeline             *)
(* (apps/cli/src/commands/publish.rs, commands/core/git.rs).               *)
(*                                                                         *)
(* A directory is a record: whether it exists, the set of its entries      *)
(* other than SKILL.md (entry GitDir is the directory ".git", entries      *)
(* 1..MaxFile are regular files), and the state of its SKILL.md: "none"    *)
(* (no such file), "bad" (present, Skill::load fails on it) or "ok"        *)
(* (present and loadable, with the manifest's name and metadata.version).  *)
(***************************************************************************)
EXTENDS Integers, Sequences, FiniteSets, TLC

\* ---------------------------------------------------------------- bounds
\* regular files of a skill directory besides SKILL.md are named 1..MaxFile
MaxFile == 1
\* publish runs in one behaviour
MaxPublishRuns == 2
\* uncommitted changes `git status --porcelain .` can list
MaxChanges == 1

\* ------------------------------------------------------ program constants
\* the entry named ".git"
GitDir == 0
\* A version or tag string is the sequence of its characters.
\* metadata.version absent from the manifest
NoVersion == <<>>
\* Skill::version() falls back to "0.1.0"
DefaultVersion == <<"0", ".", "1", ".", "0">>
\* the version strings installed manifests and the registry carry
Versions == {<<"0", ".", "1", ".", "0">>, <<"1", ".", "0", ".", "0">>}

VARIABLES
    fs,       \* install_dir: target directory name -> directory
    ws,       \* the ephemeral clone workspace (tempfile::TempDir)
    ipc,      \* position of the install run
    iargs,    \* InstallArgs after detect_source_type: kind, force, local path
    info,     \* the registry's answer (install_info)
    target,   \* target_dir, "" until the run has resolved it
    src,      \* the source directory the run fetched or located
    outcome,  \* how the run returned
    start,    \* fs when the run started
    done,     \* what the run has done: "tempdir", "clone", "remove", "copy"
    localTags,   \* the tags of the skill's repository
    remoteTags,  \* the tags of its remote origin
    registered,  \* the tags the registry has accepted for the skill
    ppc,      \* position of the publish run
    pargs,    \* PublishArgs: skip_validation, dry_run, yes, tag
    manifest, \* the loaded skill: what validate() says of it, its metadata.version
    changes,  \* the number of uncommitted changes found in the skill directory
    sel,      \* the selected tag and needs_create
    plog,     \* what the run has done and printed, in order
    presult,  \* how the run returned
    pstart,   \* the tags and the registry when the run started
    config,   \* ~/.paks/config.toml as the run read it
    repo,     \* what git says of the skill path during the run
    pruns,    \* the number of publish runs started
    fn,       \* the function applied on its own, "" before
    fargs,    \* its arguments
    fret,     \* what it returned
    toml,     \* ~/.paks/config.toml: its agents and its default agent
    acmd      \* the last `paks agent` command: its name argument, how it returned

ivars == <<fs, ws, ipc, iargs, info, target, src, outcome, start, done>>

pvars == <<localTags, remoteTags, registered, ppc, pargs, manifest, changes, sel,
           plog, presult, pstart, config, repo, pruns>>

fvars == <<fn, fargs, fret>>

avars == <<toml, acmd>>

vars == <<ivars, pvars, fvars, avars>>

\* ------------------------------------------------------------ directories
SkillNames == {"alpha"}

AbsentDir == [exists |-> FALSE, files |-> {}, md |-> "none", name |-> "", version |-> NoVersion]

EmptyDir == [AbsentDir EXCEPT !.exists = TRUE]

Entries == GitDir..MaxFile

\* every directory a source (a local path, a clone at a ref and subpath) can be
SourceDirs ==
    {AbsentDir}
    \cup {[exists |-> TRUE, files |-> f, md |-> m, name |-> "", version |-> NoVersion] :
            f \in SUBSET Entries, m \in {"none", "bad"}}
    \cup {[exists |-> TRUE, files |-> f, md |-> "ok", name |-> n, version |-> v] :
            f \in SUBSET Entries, n \in SkillNames, v \in Versions \cup {NoVersion}}

\* the check made on the directory instead of on SKILL.md in it
HasSkillMdDirOnly(d) == d.exists

\* source.join("SKILL.md").exists()
HasSkillMd(d) == d.exists /\ d.md # "none"

\* Skill::load succeeds
SkillLoadOk(d) == d.exists /\ d.md = "ok"

\* Skill::version
SkillVersion(d) == IF d.version = NoVersion THEN DefaultVersion ELSE d.version

\* SKILL.md of s written over that of d
WithMd(d, s) == [d EXCEPT !.md = s.md, !.name = s.name, !.version = s.version]

\* copy_dir_recursive(src, dst) run to its end: dst is created if missing, every
\* entry of src but the directory .git is written into it, what dst held stays
CopyDirRecursive(dst, s) ==
    LET base == IF dst.exists THEN dst ELSE EmptyDir
        put == [base EXCEPT !.files = @ \cup (s.files \ {GitDir})]
    IN IF HasSkillMd(s) THEN WithMd(put, s) ELSE put

\* copy_skill_to_target: the copy, then target/.git removed if it is there
CopySkillToTarget(dst, s) ==
    LET c == CopyDirRecursive(dst, s) IN [c EXCEPT !.files = @ \ {GitDir}]

\* what a copy that fails on some entry leaves at dst: dst untouched (create_dir_all
\* failed), or dst created with some of the entries written
PartialCopies(dst, s) ==
    LET base == IF dst.exists THEN dst ELSE EmptyDir
        add == IF s.exists THEN s.files \ {GitDir} ELSE {}
        mds == {base} \cup (IF HasSkillMd(s) THEN {WithMd(base, s)} ELSE {})
    IN {dst} \cup {[b EXCEPT !.files = @ \cup a] : a \in SUBSET add, b \in mds}

\* the removal left out
RemoveDirAllSkipped(d) == d

\* std::fs::remove_dir_all(target_dir) succeeding
RemoveDirAll(d) == AbsentDir

\* what a remove_dir_all that fails leaves: some entries may be gone already
PartialRemovals(d) ==
    {[b EXCEPT !.files = f] : f \in SUBSET d.files, b \in {d, WithMd(d, EmptyDir)}}

\* ------------------------------------------------------------ the registry
Owner == "acme"

PakNames == {"alpha"}

\* install_info and how it came: the HTTP status (0 when no answer came) and the
\* ApiError, "" for Ok
NoInfo == [owner |-> "", name |-> "", version |-> NoVersion, status |-> 0, error |-> ""]

\* the status codes the install-info endpoint can answer with
HttpStatuses == {200, 201, 401, 403, 404, 429, 500}

\* 404 is taken as any other error status
HandleResponseNoNotFound(status, parses) ==
    IF status \in {200, 201} THEN (IF parses THEN "" ELSE "Parse")
    ELSE IF status = 401 THEN "InvalidToken"
    ELSE IF status = 429 THEN "RateLimited"
    ELSE "Api"

\* PaksClient::handle_response: the ApiError for a status, "" when the body of a
\* 200 or 201 parses
HandleResponse(status, parses) ==
    IF status \in {200, 201} THEN (IF parses THEN "" ELSE "Parse")
    ELSE IF status = 401 THEN "InvalidToken"
    ELSE IF status = 404 THEN "NotFound"
    ELSE IF status = 429 THEN "RateLimited"
    ELSE "Api"

\* client.get_pak_install(uri): the request fails, or the answer goes through
\* handle_response
LookupResults ==
    {[NoInfo EXCEPT !.error = "Request"]}
    \cup {[NoInfo EXCEPT !.status = st, !.error = HandleResponse(st, parses)] :
            st \in HttpStatuses \ {200, 201}, parses \in BOOLEAN}
    \cup {IF HandleResponse(st, parses) = ""
          THEN [owner |-> Owner, name |-> n, version |-> v, status |-> st, error |-> ""]
          ELSE [NoInfo EXCEPT !.status = st, !.error = HandleResponse(st, parses)] :
            st \in {200, 201}, parses \in BOOLEAN, n \in PakNames, v \in Versions}

\* the match on the result of get_pak_install: the install's error, "" for Ok
LookupError(r) ==
    IF r.error = "" THEN ""
    ELSE IF r.error = "NotFound" THEN "err_not_found"
    ELSE IF r.error = "Api" /\ r.status = 403 THEN "err_access_denied"
    ELSE "err_fetch"

\* install_dir.join(format!("{}--{}", owner, name))
RegistryTarget(i) == i.owner \o "--" \o i.name

Locs == SkillNames \cup {RegistryTarget([owner |-> Owner, name |-> n]) : n \in PakNames}

\* ---------------------------------------------------------- local sources
\* a path outside install_dir, two directories of install_dir, a symlink to the first
LocalPaths == {"ext", "alpha", "link", "acme--alpha"}

\* Path::canonicalize of a local source path inside install_dir
Resolve(p) == IF p = "link" THEN "alpha" ELSE p

\* ------------------------------------------------------------ the workspace
NoWorkspace == [exists |-> FALSE, dir |-> AbsentDir]

\* tempfile::tempdir() and the clone into it
Workspace(d) == [exists |-> TRUE, dir |-> d]

\* the workspace kept (TempDir::into_path, or a plain directory never removed)
DropTempDirLeaked(w) == w

\* the TempDir value goes out of scope (drop(temp_dir), or an early return)
DropTempDir(w) == NoWorkspace

\* ------------------------------------------------------------------ install
NoArgs == [kind |-> "", force |-> FALSE, path |-> ""]

InstallAtRest ==
    /\ fs = [l \in Locs |-> AbsentDir]
    /\ ws = NoWorkspace
    /\ ipc = "idle"
    /\ iargs = NoArgs
    /\ info = NoInfo
    /\ target = ""
    /\ src = AbsentDir
    /\ outcome = ""
    /\ start = fs
    /\ done = {}

\* run: detect_source_type has classified args.source
InstallRun(kind, force, path) ==
    /\ ipc = "idle"
    /\ iargs' = [kind |-> kind, force |-> force, path |-> path]
    /\ ipc' = CASE kind = "registry" -> "lookup"
              [] kind = "git" -> "clone"
              [] OTHER -> "local"
    /\ start' = fs
    /\ outcome' = "running"
    /\ UNCHANGED <<fs, ws, info, target, src, done>>
    /\ UNCHANGED <<pvars, fvars, avars>>

\* the run returns with result o
Return(o) == ipc' = "done" /\ outcome' = o

\* the force flag read the wrong way round
ExistsWithoutForceInverted(d, force) == d.exists /\ force

\* `if target_dir.exists() { if !force { bail!(..) } .. }`
ExistsWithoutForce(d, force) == d.exists /\ ~force

\* the comparison made on metadata.version as written, without the "0.1.0" default
AlreadyInstalledNoDefault(d, i) == SkillLoadOk(d) /\ d.version = i.version

\* the version comparison left out: any loadable installed manifest counts
AlreadyInstalledAnyVersion(d, i) == SkillLoadOk(d)

\* `installed_version == install_info.version.version` on the loaded manifest
AlreadyInstalled(d, i) == SkillLoadOk(d) /\ SkillVersion(d) = i.version

\* install_from_registry, to the answer of the install-info endpoint
RegistryLookup ==
    /\ ipc = "lookup"
    /\ \E r \in LookupResults :
          /\ info' = r
          /\ IF LookupError(r) # ""
             THEN Return(LookupError(r)) /\ UNCHANGED target
             ELSE /\ target' = RegistryTarget(r)
                  /\ ipc' = "reg_check"
                  /\ UNCHANGED outcome
    /\ UNCHANGED <<fs, ws, iargs, src, start, done>>
    /\ UNCHANGED <<pvars, fvars, avars>>

\* install_from_registry, "Check if already installed": the no-op, the refusal, or
\* with force the removal of the target, before anything is cloned
RegistryCheck ==
    /\ ipc = "reg_check"
    /\ LET t == fs[target] IN
       IF ~t.exists
       THEN ipc' = "clone" /\ UNCHANGED <<fs, outcome, done>>
       ELSE IF ExistsWithoutForce(t, iargs.force)
       THEN /\ IF AlreadyInstalled(t, info)
               THEN Return("ok_already")
               ELSE Return("err_exists")
            /\ UNCHANGED <<fs, done>>
       ELSE /\ done' = done \cup {"remove"}
            /\ \E ok \in BOOLEAN :
                  IF ok
                  THEN /\ fs' = [fs EXCEPT ![target] = RemoveDirAll(t)]
                       /\ ipc' = "clone"
                       /\ UNCHANGED outcome
                  ELSE /\ \E p \in PartialRemovals(t) : fs' = [fs EXCEPT ![target] = p]
                       /\ Return("err_remove")
    /\ UNCHANGED <<ws, iargs, info, target, src, start>>
    /\ UNCHANGED <<pvars, fvars, avars>>

\* clone_git_repo: the temporary directory, git clone into it, the SKILL.md check on
\* the source path inside the clone
CloneResults ==
    {[status |-> st, dir |-> AbsentDir] : st \in {"no_tempdir", "clone_failed"}}
    \cup {[status |-> "cloned", dir |-> d] : d \in SourceDirs}

CloneGitRepo ==
    /\ ipc = "clone"
    /\ \E r \in CloneResults :
          CASE r.status = "no_tempdir" ->
                  /\ Return("err_tempdir")
                  /\ UNCHANGED <<ws, src, done>>
            [] r.status = "clone_failed" ->
                  /\ done' = done \cup {"tempdir"}
                  /\ ws' = DropTempDir(Workspace(AbsentDir))
                  /\ Return("err_clone")
                  /\ UNCHANGED src
            [] OTHER ->
                  /\ done' = done \cup {"tempdir", "clone"}
                  /\ src' = r.dir
                  /\ IF ~HasSkillMd(r.dir)
                     THEN /\ ws' = DropTempDir(Workspace(r.dir))
                          /\ Return("err_not_skill")
                     ELSE /\ ws' = Workspace(r.dir)
                          /\ ipc' = IF iargs.kind = "registry" THEN "reg_place" ELSE "git_resolve"
                          /\ UNCHANGED outcome
    /\ UNCHANGED <<fs, iargs, info, target, start>>
    /\ UNCHANGED <<pvars, fvars, avars>>

\* a copy of s into fs[t] by copier Copy(dst, s): it runs to its end, or fails on
\* some entry and leaves a part
CopyResults(dst, s, full) ==
    (IF s.exists THEN {[ok |-> TRUE, dir |-> full]} ELSE {})
    \cup {[ok |-> FALSE, dir |-> p] : p \in PartialCopies(dst, s)}

\* install_from_git_to_target after the clone: the two double-checks, the copy, the
\* workspace dropped on every way out
InstallFromGitToTarget ==
    /\ ipc = "reg_place"
    /\ LET t == fs[target] IN
       IF ~HasSkillMd(ws.dir)
       THEN Return("err_not_skill") /\ UNCHANGED <<fs, done>>
       ELSE IF ExistsWithoutForce(t, iargs.force)
       THEN Return("err_exists") /\ UNCHANGED <<fs, done>>
       ELSE /\ done' = done \cup {"copy"}
            /\ \E r \in CopyResults(t, ws.dir, CopySkillToTarget(t, ws.dir)) :
                  /\ fs' = [fs EXCEPT ![target] = r.dir]
                  /\ Return(IF r.ok THEN "ok_installed" ELSE "err_copy")
    /\ ws' = DropTempDir(ws)
    /\ UNCHANGED <<iargs, info, target, src, start>>
    /\ UNCHANGED <<pvars, fvars, avars>>

\* install_from_git after the clone: load the manifest for the skill name, resolve
\* the target, refuse it or with force remove it
InstallFromGitResolve ==
    /\ ipc = "git_resolve"
    /\ IF ~SkillLoadOk(ws.dir)
       THEN /\ Return("err_load")
            /\ ws' = DropTempDir(ws)
            /\ UNCHANGED <<fs, target, done>>
       ELSE LET t == fs[ws.dir.name] IN
            /\ target' = ws.dir.name
            /\ IF ~t.exists
               THEN ipc' = "git_copy" /\ UNCHANGED <<fs, ws, outcome, done>>
               ELSE IF ExistsWithoutForce(t, iargs.force)
               THEN /\ Return("err_exists")
                    /\ ws' = DropTempDir(ws)
                    /\ UNCHANGED <<fs, done>>
               ELSE /\ done' = done \cup {"remove"}
                    /\ \E ok \in BOOLEAN :
                          IF ok
                          THEN /\ fs' = [fs EXCEPT ![ws.dir.name] = RemoveDirAll(t)]
                               /\ ipc' = "git_copy"
                               /\ UNCHANGED <<ws, outcome>>
                          ELSE /\ \E p \in PartialRemovals(t) :
                                     fs' = [fs EXCEPT ![ws.dir.name] = p]
                               /\ Return("err_remove")
                               /\ ws' = DropTempDir(ws)
    /\ UNCHANGED <<iargs, info, src, start>>
    /\ UNCHANGED <<pvars, fvars, avars>>

\* install_from_git: copy_skill_to_target, then the workspace is dropped
InstallFromGitCopy ==
    /\ ipc = "git_copy"
    /\ done' = done \cup {"copy"}
    /\ \E r \in CopyResults(fs[target], ws.dir, CopySkillToTarget(fs[target], ws.dir)) :
          /\ fs' = [fs EXCEPT ![target] = r.dir]
          /\ Return(IF r.ok THEN "ok_installed" ELSE "err_copy")
    /\ ws' = DropTempDir(ws)
    /\ UNCHANGED <<iargs, info, target, src, start>>
    /\ UNCHANGED <<pvars, fvars, avars>>

\* Path::canonicalize(..).ok() of a path whose directory exists or not: the place it
\* resolves to, "" for None
Canonicalize(p, exists) == IF exists THEN Resolve(p) ELSE ""

\* the comparison made after the target has been removed: it canonicalizes to None
SameLocationAfterRemoval(p, s, name, t) == Canonicalize(p, s.exists) = Canonicalize(name, FALSE)

\* `source.canonicalize().ok() == target_dir.canonicalize().ok()`
SameLocation(p, s, name, t) == Canonicalize(p, s.exists) = Canonicalize(name, t.exists)

\* the directory the local source path p names now
SourceAt(p) == IF p = "ext" THEN src ELSE fs[Resolve(p)]

\* install_from_local to the copy: source exists, has SKILL.md, loads; the target is
\* resolved from the skill name; same place, refusal, or with force the removal
InstallFromLocalResolve ==
    /\ ipc = "local"
    /\ \E s \in (IF iargs.path = "ext" THEN SourceDirs ELSE {fs[Resolve(iargs.path)]}) :
          /\ src' = s
          /\ IF ~s.exists
             THEN Return("err_no_path") /\ UNCHANGED <<fs, target, done>>
             ELSE IF ~HasSkillMd(s)
             THEN Return("err_not_skill") /\ UNCHANGED <<fs, target, done>>
             ELSE IF ~SkillLoadOk(s)
             THEN Return("err_load") /\ UNCHANGED <<fs, target, done>>
             ELSE LET t == fs[s.name] IN
                  /\ target' = s.name
                  /\ IF SameLocation(iargs.path, s, s.name, t)
                     THEN Return("ok_same_location") /\ UNCHANGED <<fs, done>>
                     ELSE IF ~t.exists
                     THEN ipc' = "local_copy" /\ UNCHANGED <<fs, outcome, done>>
                     ELSE IF ExistsWithoutForce(t, iargs.force)
                     THEN Return("err_exists") /\ UNCHANGED <<fs, done>>
                     ELSE /\ done' = done \cup {"remove"}
                          /\ \E ok \in BOOLEAN :
                                IF ok
                                THEN /\ fs' = [fs EXCEPT ![s.name] = RemoveDirAll(t)]
                                     /\ ipc' = "local_copy"
                                     /\ UNCHANGED outcome
                                ELSE /\ \E p \in PartialRemovals(t) :
                                           fs' = [fs EXCEPT ![s.name] = p]
                                     /\ Return("err_remove")
    /\ UNCHANGED <<ws, iargs, info, start>>
    /\ UNCHANGED <<pvars, fvars, avars>>

\* install_from_local: create the parent directories, copy_dir_recursive
InstallFromLocalCopy ==
    /\ ipc = "local_copy"
    /\ done' = done \cup {"copy"}
    /\ LET s == SourceAt(iargs.path) IN
       \E r \in CopyResults(fs[target], s, CopyDirRecursive(fs[target], s)) :
          /\ fs' = [fs EXCEPT ![target] = r.dir]
          /\ Return(IF r.ok THEN "ok_installed" ELSE "err_copy")
    /\ UNCHANGED <<ws, iargs, info, target, src, start>>
    /\ UNCHANGED <<pvars, fvars, avars>>

\* the process has exited; the next invocation starts from the file system it left
InstallExit ==
    /\ ipc = "done"
    /\ ipc' = "idle"
    /\ iargs' = NoArgs
    /\ info' = NoInfo
    /\ target' = ""
    /\ src' = AbsentDir
    /\ outcome' = ""
    /\ start' = fs
    /\ done' = {}
    /\ UNCHANGED <<fs, ws>>
    /\ UNCHANGED <<pvars, fvars, avars>>

InstallNext ==
    \/ \E force \in BOOLEAN : InstallRun("registry", force, "")
    \/ \E force \in BOOLEAN : InstallRun("git", force, "")
    \/ \E force \in BOOLEAN, p \in LocalPaths : InstallRun("local", force, p)
    \/ RegistryLookup
    \/ RegistryCheck
    \/ CloneGitRepo
    \/ InstallFromGitToTarget
    \/ InstallFromGitResolve
    \/ InstallFromGitCopy
    \/ InstallFromLocalResolve
    \/ InstallFromLocalCopy
    \/ InstallExit

\* ------------------------------------------------------- install: claims
InstallDone == ipc = "done"

\* the tree a complete copy of source s makes at a target that did not exist
Materialized(s) == [s EXCEPT !.files = @ \ {GitDir}]

\* a local source path and the resolved target are the same directory
SelfInstall ==
    /\ iargs.kind = "local"
    /\ target # ""
    /\ Resolve(iargs.path) = target

\* C1: in a run without force, of any source kind, every directory of install_dir
\* that existed when the run started still exists with the contents it had, at
\* every point of the run and when it has returned, whatever it returned
C1_NoForceKeepsTarget ==
    (ipc # "idle" /\ ~iargs.force) =>
        \A l \in Locs : start[l].exists => fs[l] = start[l]

C1_Witness ==
    /\ InstallDone
    /\ ~iargs.force
    /\ iargs.kind = "git"
    /\ outcome = "err_exists"
    /\ start[target].exists
    /\ start[target].files # src.files \ {GitDir}

\* C2: a registry run without force whose target exists with a loadable manifest
\* whose version (the default "0.1.0" when it carries none) is the version the
\* registry resolved returns success as "already installed", has made no
\* temporary directory and no clone, removed and copied nothing, and leaves
\* install_dir exactly as it was
C2_RegistrySameVersionNoOp ==
    ( /\ InstallDone
      /\ iargs.kind = "registry"
      /\ ~iargs.force
      /\ target # ""
      /\ start[target].exists
      /\ start[target].md = "ok"
      /\ (IF start[target].version = NoVersion THEN DefaultVersion
          ELSE start[target].version) = info.version )
    => (outcome = "ok_already" /\ done = {} /\ fs = start /\ ws = NoWorkspace)

C2_Witness ==
    /\ InstallDone
    /\ iargs.kind = "registry"
    /\ ~iargs.force
    /\ outcome = "ok_already"
    /\ fs[target].version = NoVersion
    /\ info.version = DefaultVersion

\* C3: when a run with force into a target that existed has returned success, the
\* target holds exactly the materialized source tree (the source without .git);
\* nothing the earlier installation held besides survives
C3_ForceReplacesTarget ==
    ( /\ InstallDone
      /\ iargs.force
      /\ outcome \in {"ok_installed", "ok_same_location"}
      /\ start[target].exists )
    => fs[target] = Materialized(src)

C3_Witness ==
    /\ InstallDone
    /\ iargs.force
    /\ outcome = "ok_installed"
    /\ start[target].exists
    /\ start[target].files \ src.files # {}

\* C4: when a run has returned, no clone workspace is left, whatever the way out
C4_WorkspaceDeleted == ipc \in {"done", "idle"} => ~ws.exists

C4_Witness ==
    /\ InstallDone
    /\ "tempdir" \in done
    /\ iargs.kind = "git"
    /\ outcome = "err_remove"

\* C5, original wording: without force, a run whose target exists ends in the error that
\* demands force, but for the registry same-version no-op
C5_AsClaimed ==
    ( /\ InstallDone
      /\ ~iargs.force
      /\ target # ""
      /\ start[target].exists )
    => \/ outcome = "err_exists"
       \/ /\ iargs.kind = "registry"
          /\ outcome = "ok_already"

\* C5: without force, a run whose target exists ends in the error that
\* demands force, but for two successes: the registry no-op, exactly when the
\* installed manifest loads and carries the resolved version, and the local run
\* whose source is the target itself
C5_ExistingTargetWithoutForce ==
    ( /\ InstallDone
      /\ ~iargs.force
      /\ target # ""
      /\ start[target].exists )
    => CASE iargs.kind = "registry" ->
              IF start[target].md = "ok"
                 /\ (IF start[target].version = NoVersion THEN DefaultVersion
                     ELSE start[target].version) = info.version
              THEN outcome = "ok_already"
              ELSE outcome = "err_exists"
         [] iargs.kind = "git" -> outcome = "err_exists"
         [] OTHER -> IF SelfInstall
                     THEN outcome = "ok_same_location"
                     ELSE outcome = "err_exists"

C5_Witness ==
    /\ InstallDone
    /\ ~iargs.force
    /\ iargs.kind = "registry"
    /\ target # ""
    /\ start[target].exists
    /\ start[target].md = "bad"
    /\ outcome = "err_exists"

\* the run has fetched or located its source directory
SourceReached ==
    \/ "clone" \in done
    \/ iargs.kind = "local" /\ ipc \in {"local_copy", "done"} /\ src.exists

C7_SelfInstallIsNoOp ==
    (InstallDone /\ SelfInstall /\ start[target].exists) =>
        (outcome = "ok_same_location" /\ done = {} /\ fs = start)

C7_Witness ==
    /\ InstallDone
    /\ SelfInstall
    /\ iargs.force
    /\ iargs.path = "link"
    /\ outcome = "ok_same_location"
    /\ fs[target].md = "ok"

\* ------------------------------------------------------- version strings
\* u32::MAX, scaled so that decimal strings stay short
MaxU32 == 99

DigitChars == <<"0", "1", "2", "3", "4", "5", "6", "7", "8", "9">>

IsDigit(c) == \E i \in 1..10 : DigitChars[i] = c

DigitValue(c) == (CHOOSE i \in 1..10 : DigitChars[i] = c) - 1

\* str::split(sep): the parts between the separators, one part when there is none
RECURSIVE Split(_, _)
Split(s, sep) ==
    IF \A i \in 1..Len(s) : s[i] # sep
    THEN <<s>>
    ELSE LET k == CHOOSE i \in 1..Len(s) : s[i] = sep /\ \A j \in 1..(i - 1) : s[j] # sep
         IN <<SubSeq(s, 1, k - 1)>> \o Split(SubSeq(s, k + 1, Len(s)), sep)

\* the value of a digit string, -1 once it passes MaxU32
RECURSIVE DecimalValue(_)
DecimalValue(s) ==
    IF Len(s) = 0 THEN 0
    ELSE LET hi == DecimalValue(SubSeq(s, 1, Len(s) - 1))
             v == hi * 10 + DigitValue(s[Len(s)])
         IN IF hi = -1 \/ v > MaxU32 THEN -1 ELSE v

\* str::parse::<u32>: an optional '+', then digits only, at least one, no overflow;
\* -1 for Err
ParseU32(s) ==
    LET body == IF Len(s) > 0 /\ s[1] = "+" THEN Tail(s) ELSE s
    IN IF Len(body) = 0 \/ \E i \in 1..Len(body) : ~IsDigit(body[i])
       THEN -1
       ELSE DecimalValue(body)

\* format!("{}", n) of a u32
RECURSIVE FormatU32(_)
FormatU32(n) ==
    IF n < 10 THEN <<DigitChars[n + 1]>>
    ELSE FormatU32(n \div 10) \o <<DigitChars[(n % 10) + 1]>>

\* version.strip_prefix('v').unwrap_or(version)
StripPrefixV(s) == IF Len(s) > 0 /\ s[1] = "v" THEN Tail(s) ELSE s

\* parse_version: [ok, major, minor, patch]
ParseVersion(s) ==
    LET parts == Split(StripPrefixV(s), ".")
        bad == [ok |-> FALSE, major |-> 0, minor |-> 0, patch |-> 0]
    IN IF Len(parts) # 3 THEN bad
       ELSE LET major == ParseU32(parts[1])
                minor == ParseU32(parts[2])
                patch == ParseU32(parts[3])
            IN IF major = -1 \/ minor = -1 \/ patch = -1 THEN bad
               ELSE [ok |-> TRUE, major |-> major, minor |-> minor, patch |-> patch]

\* format!("v{}.{}.{}", major, minor, patch)
FormatTag(major, minor, patch) ==
    <<"v">> \o FormatU32(major) \o <<".">> \o FormatU32(minor) \o <<".">> \o FormatU32(patch)

\* `n + 1` on a u32: past the maximum the build either aborts on the overflow check
\* (-1) or wraps to 0
AddOne(n) == IF n < MaxU32 THEN {n + 1} ELSE {-1, 0}

\* `if s.starts_with('v') { s } else { format!("v{}", s) }`
WithPrefixV(s) == IF Len(s) > 0 /\ s[1] = "v" THEN s ELSE <<"v">> \o s

\* filter_semver_tags
FilterSemverTags(tags) == {t \in tags : ParseVersion(t).ok}

\* ------------------------------------------------------------------ publish
NoTag == <<>>

TagLatest == <<"l", "a", "t", "e", "s", "t">>

\* the tags the repository can hold before the first run
InitialTags == {<<"v", "0", ".", "1", ".", "1">>, TagLatest}

\* --tag arguments: without the prefix, with it, and no version at all
ExplicitTags == {<<"0", ".", "1", ".", "1">>, <<"v", "0", ".", "2", ".", "0">>, TagLatest}

\* what the user can type at "Enter version"
CustomInputs == {<<"0", ".", "3", ".", "0">>, <<"v", "0", ".", "1", ".", "1">>, <<"x">>}

\* the manifests Skill::load can return: validate() fails on it, warns, or is
\* silent; metadata.version is absent, a version, a version whose patch is the
\* largest u32, or no version
Manifests ==
    [valid : {"error", "warnings", "clean"},
     version : {NoVersion, <<"0", ".", "1", ".", "1">>, <<"0", ".", "1">> \o <<".">> \o FormatU32(MaxU32),
                <<"1", ".", "0">>}]

NoManifest == [valid |-> "", version |-> NoVersion]

NoArgsP == [skip_validation |-> FALSE, dry_run |-> FALSE, yes |-> FALSE, tag |-> NoTag]

NoSelection == [tag |-> NoTag, needs_create |-> FALSE]

Snapshot == [local |-> localTags, remote |-> remoteTags, registered |-> registered]

\* the registries a config can name
Registries == {"stakpak", "corp"}

\* Config: default_registry ("" for None) and the registries that hold a token;
\* Config::load gives the default config, without registries, when the file is
\* missing
Configs == [default_registry : {""} \cup Registries, tokens : SUBSET Registries]

\* no config read yet
NoConfig == [default_registry |-> "", tokens |-> {"unread"}]

\* Config::load failed: the file cannot be read or parsed
BadConfig == [default_registry |-> "", tokens |-> {"unreadable"}]

\* a token is found though none is stored
GetAuthTokenAnonymous(c) == "stakpak"

\* Config::get_auth_token: the registry whose token is returned, "" for None
GetAuthToken(c) ==
    IF c.default_registry # "" /\ c.default_registry \in c.tokens
    THEN c.default_registry
    ELSE IF "stakpak" \in c.tokens THEN "stakpak" ELSE ""

\* the skill path as git sees it: inside a work tree or not, with a remote named
\* origin or not, and what `git rev-parse --abbrev-ref HEAD` prints ("HEAD" when
\* detached)
Repos == [work_tree : BOOLEAN, origin : BOOLEAN, head : {"main", "HEAD"}]

\* no run is looking at the repository
NoRepo == [work_tree |-> FALSE, origin |-> FALSE, head |-> ""]

\* git::is_git_repo
IsGitRepo(r) == r.work_tree

\* git::get_remote_url(path, "origin"): git fails outside a work tree and when the
\* remote is not configured
GetRemoteUrlOk(r) == r.work_tree /\ r.origin

\* any HEAD will do
GetCurrentBranchOkAnyHead(r) == r.work_tree

\* git::get_current_branch: Err when git fails or prints "HEAD"
GetCurrentBranchOk(r) == r.work_tree /\ r.head # "HEAD"

PublishAtRest ==
    /\ ppc = "idle"
    /\ pargs = NoArgsP
    /\ manifest = NoManifest
    /\ changes = 0
    /\ sel = NoSelection
    /\ plog = <<>>
    /\ presult = ""
    /\ config = NoConfig
    /\ repo = NoRepo
    /\ pruns = 0

\* the run returns with result r
ReturnP(r) == ppc' = "done" /\ presult' = r

\* git::tag_exists: `git tag -l <tag>` printed the tag; false when git failed
TagExists(tag, git_ok) == git_ok /\ tag \in localTags

\* run is called with the parsed arguments; a run after the first is a scripted
\* one, with --yes
PublishRun(a) ==
    /\ ppc = "idle"
    /\ pruns < MaxPublishRuns
    /\ pruns > 0 => a.yes
    /\ pruns' = pruns + 1
    /\ pargs' = a
    /\ ppc' = "load"
    /\ presult' = "running"
    /\ pstart' = Snapshot
    /\ UNCHANGED <<localTags, remoteTags, registered, manifest, changes, sel, plog>>
    /\ UNCHANGED config
    /\ UNCHANGED repo
    /\ UNCHANGED <<ivars, fvars, avars>>

\* the flag is not looked at
MustValidateAlways(a) == TRUE

\* `if !args.skip_validation`
MustValidate(a) == ~a.skip_validation

\* Step 1: Skill::load, then validate() unless --skip-validation; an error of
\* validate() ends the run, its warnings are printed
LoadAndValidate ==
    /\ ppc = "load"
    /\ \E loads \in BOOLEAN, m \in Manifests :
          IF ~loads
          THEN ReturnP("err_load") /\ UNCHANGED <<manifest, plog>>
          ELSE /\ manifest' = m
               /\ IF ~MustValidate(pargs)
                  THEN ppc' = "git" /\ UNCHANGED <<plog, presult>>
                  ELSE IF m.valid = "error"
                  THEN ReturnP("err_validation") /\ plog' = Append(plog, "validate")
                  ELSE /\ ppc' = "git"
                       /\ plog' = plog \o (IF m.valid = "warnings"
                                           THEN <<"validate", "warning">>
                                           ELSE <<"validate">>)
                       /\ UNCHANGED presult
    /\ UNCHANGED <<localTags, remoteTags, registered, pargs, changes, sel, pstart, pruns>>
    /\ UNCHANGED config
    /\ UNCHANGED repo
    /\ UNCHANGED <<ivars, fvars, avars>>

\* Step 2: is_git_repo, get_remote_url(origin), get_current_branch, then
\* get_pak_path_in_repo, which can fail on its own
GitChecks ==
    /\ ppc = "git"
    /\ \E r \in Repos :
          /\ repo' = r
          /\ IF ~IsGitRepo(r) THEN ReturnP("err_not_repo")
             ELSE IF ~GetRemoteUrlOk(r) THEN ReturnP("err_no_origin")
             ELSE IF ~GetCurrentBranchOk(r) THEN ReturnP("err_detached")
             ELSE \E path_ok \in BOOLEAN :
                     IF path_ok THEN ppc' = "dirty" /\ UNCHANGED presult
                     ELSE ReturnP("err_git")
    /\ UNCHANGED <<localTags, remoteTags, registered, pargs, manifest, changes, sel,
                   plog, pstart, pruns>>
    /\ UNCHANGED config
    /\ UNCHANGED <<ivars, fvars, avars>>

\* the prompt is left out
MustAskAboutChangesNever(n, yes) == FALSE

\* `!uncommitted_changes.is_empty() && !args.yes`
MustAskAboutChanges(n, yes) == n > 0 /\ ~yes

\* Confirm::interact: the answer, or the error of a prompt that cannot be shown
PromptAnswers == {"yes", "no", "error"}

\* Step 3: uncommitted changes in the skill directory (-1: git status failed): the
\* prompt without --yes, the report with it
UncommittedChanges ==
    /\ ppc = "dirty"
    /\ \E n \in -1..MaxChanges :
          /\ changes' = n
          /\ IF n = -1
             THEN ReturnP("err_git") /\ UNCHANGED plog
             ELSE IF MustAskAboutChanges(n, pargs.yes)
             THEN \E answer \in PromptAnswers :
                     CASE answer = "yes" ->
                             /\ ppc' = "select"
                             /\ plog' = Append(plog, "changes_accepted")
                             /\ UNCHANGED presult
                       [] answer = "no" ->
                             /\ ReturnP("ok_aborted")
                             /\ plog' = Append(plog, "changes_declined")
                       [] OTHER -> ReturnP("err_prompt") /\ UNCHANGED plog
             ELSE /\ ppc' = "select"
                  /\ plog' = IF n > 0 THEN Append(plog, "changes_reported") ELSE plog
                  /\ UNCHANGED presult
    /\ UNCHANGED <<localTags, remoteTags, registered, pargs, manifest, sel, pstart, pruns>>
    /\ UNCHANGED config
    /\ UNCHANGED repo
    /\ UNCHANGED <<ivars, fvars, avars>>

\* a tag selection: "existing" and "new" carry the tag, the others end the run
Selection(status, tag) == [status |-> status, tag |-> tag]

\* the tag is taken as given, neither parsed nor looked up
ExplicitSelectionUnchecked(arg, git_ok) == Selection("existing", WithPrefixV(arg))

\* --tag: the prefix is added if missing, the tag must parse and must exist
ExplicitSelection(arg, git_ok) ==
    LET tag_to_check == WithPrefixV(arg)
    IN IF ~ParseVersion(tag_to_check).ok THEN Selection("err_version", NoTag)
       ELSE IF ~TagExists(tag_to_check, git_ok) THEN Selection("err_tag_missing", NoTag)
       ELSE Selection("existing", tag_to_check)

\* --yes without --tag: the patch bump of the manifest's version
PatchBumpSelections(current_version) ==
    LET v == ParseVersion(current_version)
    IN IF ~v.ok THEN {Selection("err_version", NoTag)}
       ELSE {IF p = -1 THEN Selection("panic_overflow", NoTag)
             ELSE Selection("new", FormatTag(v.major, v.minor, p)) : p \in AddOne(v.patch)}

\* prompt_custom_version
CustomSelection(input) ==
    LET tag == WithPrefixV(input)
    IN IF ParseVersion(tag).ok THEN Selection("new", tag) ELSE Selection("err_version", NoTag)

\* prompt_tag_selection: the three bumps when the manifest's version parses (all
\* three are computed before the menu is shown), the existing semver tags, and the
\* custom entry
PromptTagSelections(existing_tags, current_version) ==
    LET v == ParseVersion(current_version)
        semver_tags == FilterSemverTags(existing_tags)
        others ==
            {Selection("existing", t) : t \in semver_tags}
            \cup {CustomSelection(c) : c \in CustomInputs}
            \cup {Selection("err_prompt", NoTag)}
        bumps ==
            {IF p = -1 \/ n = -1 \/ m = -1
             THEN {Selection("panic_overflow", NoTag)}
             ELSE {Selection("new", FormatTag(v.major, v.minor, p)),
                   Selection("new", FormatTag(v.major, n, 0)),
                   Selection("new", FormatTag(m, 0, 0))} \cup others :
                p \in AddOne(v.patch), n \in AddOne(v.minor), m \in AddOne(v.major)}
    IN IF v.ok THEN UNION bumps ELSE others

\* Step 4: the tag and needs_create
SelectTag ==
    /\ ppc = "select"
    /\ \E listed \in BOOLEAN, git_ok \in BOOLEAN :
          IF ~listed
          THEN ReturnP("err_git") /\ UNCHANGED sel
          ELSE \E r \in (IF pargs.tag # NoTag THEN {ExplicitSelection(pargs.tag, git_ok)}
                         ELSE IF pargs.yes THEN PatchBumpSelections(SkillVersion(manifest))
                         ELSE PromptTagSelections(localTags, SkillVersion(manifest))) :
                  CASE r.status = "existing" ->
                          /\ sel' = [tag |-> r.tag, needs_create |-> FALSE]
                          /\ ppc' = "plan"
                          /\ UNCHANGED presult
                    [] r.status = "new" ->
                          IF TagExists(r.tag, git_ok)
                          THEN ReturnP("err_tag_exists") /\ UNCHANGED sel
                          ELSE /\ sel' = [tag |-> r.tag, needs_create |-> TRUE]
                               /\ ppc' = "plan"
                               /\ UNCHANGED presult
                    [] OTHER -> ReturnP(r.status) /\ UNCHANGED sel
    /\ UNCHANGED <<localTags, remoteTags, registered, pargs, manifest, changes, plog,
                   pstart, pruns>>
    /\ UNCHANGED config
    /\ UNCHANGED repo
    /\ UNCHANGED <<ivars, fvars, avars>>

\* the flag is not looked at
IsDryRunIgnored(a) == FALSE

\* `if args.dry_run`
IsDryRun(a) == a.dry_run

\* the tag is taken as already there
AfterConfirmSkipTag(s) == "register"

\* Step 6, `if needs_create`: create and push the tag first, or go to registration
AfterConfirm(s) == IF s.needs_create THEN "create" ELSE "register"

\* the dry-run output, then Step 5: the confirmation prompt unless --yes
PlanAndConfirm ==
    /\ ppc = "plan"
    /\ IF IsDryRun(pargs)
       THEN /\ plog' = Append(plog, IF sel.needs_create THEN "plan_new_tag"
                                    ELSE "plan_existing_tag")
            /\ ReturnP("ok_dry_run")
       ELSE IF ~pargs.yes
       THEN \E answer \in PromptAnswers :
               CASE answer = "yes" ->
                       /\ plog' = Append(plog, "confirmed")
                       /\ ppc' = AfterConfirm(sel)
                       /\ UNCHANGED presult
                 [] answer = "no" ->
                       /\ plog' = Append(plog, "declined")
                       /\ ReturnP("ok_aborted")
                 [] OTHER -> ReturnP("err_prompt") /\ UNCHANGED plog
       ELSE /\ ppc' = AfterConfirm(sel)
            /\ UNCHANGED <<plog, presult>>
    /\ UNCHANGED <<localTags, remoteTags, registered, pargs, manifest, changes, sel,
                   pstart, pruns>>
    /\ UNCHANGED config
    /\ UNCHANGED repo
    /\ UNCHANGED <<ivars, fvars, avars>>

\* the tag written over the one of that name
GitTagForced(tag, git_ok) == git_ok

\* `git tag -a <tag> -m <message>` succeeds: git ran, and refuses a name that is taken
GitTag(tag, git_ok) == git_ok /\ tag \notin localTags

\* git::create_tag
CreateTag ==
    /\ ppc = "create"
    /\ \E ok \in BOOLEAN :
          IF GitTag(sel.tag, ok)
          THEN /\ localTags' = localTags \cup {sel.tag}
               /\ plog' = Append(plog, "tag_created")
               /\ ppc' = "push"
               /\ UNCHANGED presult
          ELSE /\ ReturnP("err_create_tag")
               /\ UNCHANGED <<localTags, plog>>
    /\ UNCHANGED <<remoteTags, registered, pargs, manifest, changes, sel, pstart, pruns>>
    /\ UNCHANGED config
    /\ UNCHANGED repo
    /\ UNCHANGED <<ivars, fvars, avars>>

\* git::push_tag: `git push origin <tag>`
PushTag ==
    /\ ppc = "push"
    /\ \E ok \in BOOLEAN :
          IF ok
          THEN /\ remoteTags' = remoteTags \cup {sel.tag}
               /\ plog' = Append(plog, "tag_pushed")
               /\ ppc' = "register"
               /\ UNCHANGED presult
          ELSE /\ ReturnP("err_push_tag")
               /\ UNCHANGED <<remoteTags, plog>>
    /\ UNCHANGED <<localTags, registered, pargs, manifest, changes, sel, pstart, pruns>>
    /\ UNCHANGED config
    /\ UNCHANGED repo
    /\ UNCHANGED <<ivars, fvars, avars>>

\* Step 7: Config::load, the stored token, the request to /v1/paks/publish and
\* the registry's answer to it
Register ==
    /\ ppc = "register"
    /\ \E c \in Configs \cup {BadConfig}, accepted \in BOOLEAN :
          /\ config' = c
          /\ IF c = BadConfig
             THEN ReturnP("err_config") /\ UNCHANGED <<registered, plog>>
             ELSE IF GetAuthToken(c) = ""
             THEN ReturnP("err_not_authenticated") /\ UNCHANGED <<registered, plog>>
             ELSE IF ~accepted
             THEN /\ plog' = Append(plog, "request_sent")
                  /\ ReturnP("err_registry")
                  /\ UNCHANGED registered
             ELSE /\ plog' = Append(plog, "request_sent")
                  /\ registered' = registered \cup {sel.tag}
                  /\ ReturnP("ok_published")
    /\ UNCHANGED <<localTags, remoteTags, pargs, manifest, changes, sel, pstart, pruns>>
    /\ UNCHANGED repo
    /\ UNCHANGED <<ivars, fvars, avars>>

\* the process has exited; the repository and the registry stay as it left them
PublishExit ==
    /\ ppc = "done"
    /\ ppc' = "idle"
    /\ pargs' = NoArgsP
    /\ manifest' = NoManifest
    /\ changes' = 0
    /\ sel' = NoSelection
    /\ plog' = <<>>
    /\ presult' = ""
    /\ config' = NoConfig
    /\ repo' = NoRepo
    /\ pstart' = Snapshot
    /\ UNCHANGED <<localTags, remoteTags, registered, pruns>>
    /\ UNCHANGED <<ivars, fvars, avars>>

PublishArgSets ==
    [skip_validation : BOOLEAN, dry_run : BOOLEAN, yes : BOOLEAN,
     tag : ExplicitTags \cup {NoTag}]

PublishNext ==
    \/ \E a \in PublishArgSets : PublishRun(a)
    \/ LoadAndValidate
    \/ GitChecks
    \/ UncommittedChanges
    \/ SelectTag
    \/ PlanAndConfirm
    \/ CreateTag
    \/ PushTag
    \/ Register
    \/ PublishExit

\* --------------------------------------------------------------- agents
\* Config::builtin_agents, and the list `paks agent remove` refuses
Builtins == {"stakpak", "claude-code", "cursor", "vscode", "copilot", "goose", "opencode"}

\* the agents a user adds
CustomAgents == {"mine", "team"}

\* the name arguments tried: an agent of either kind, or the empty string
AgentArgs == Builtins \cup CustomAgents \cup {""}

\* Option<String> for default_agent: no name, or one
NoAgent == {}

\* config.toml is not there
NoFile == [exists |-> FALSE, agents |-> {}, default_agent |-> NoAgent]

\* Config::load: the default config when the file is missing, else the file with
\* the built-in agents it does not name merged in
Load(file) ==
    IF ~file.exists THEN [agents |-> Builtins, default_agent |-> NoAgent]
    ELSE [agents |-> file.agents \cup Builtins, default_agent |-> file.default_agent]

\* Config::save succeeding: the file holds the config
Save(c) == [exists |-> TRUE, agents |-> c.agents, default_agent |-> c.default_agent]

\* the default is left as it is
ClearedDefaultKept(default_agent, name) == default_agent

\* "Clear default if it was this agent"
ClearedDefault(default_agent, name) ==
    IF default_agent = {name} THEN NoAgent ELSE default_agent

AgentsAtRest ==
    /\ toml = NoFile
    /\ acmd = [cmd |-> "", name |-> "", result |-> "", before |-> NoFile]

\* the command returns r
Returned(cmd, name, r) == acmd' = [cmd |-> cmd, name |-> name, result |-> r, before |-> toml]

\* paks agent add <name> <dir>
AgentAdd(name) ==
    /\ \E loaded \in BOOLEAN, saved \in BOOLEAN, dir_made \in BOOLEAN :
          LET loaded_config == Load(toml) IN
          IF ~loaded THEN Returned("add", name, "err_config") /\ UNCHANGED toml
          ELSE IF name = "" THEN Returned("add", name, "err_empty_name") /\ UNCHANGED toml
          ELSE IF name \in loaded_config.agents
          THEN Returned("add", name, "err_exists") /\ UNCHANGED toml
          ELSE IF ~saved THEN Returned("add", name, "err_save") /\ UNCHANGED toml
          ELSE /\ toml' = Save([loaded_config EXCEPT !.agents = @ \cup {name}])
               /\ Returned("add", name, IF dir_made THEN "ok" ELSE "err_create_dir")
    /\ UNCHANGED <<ivars, pvars, fvars>>

\* paks agent remove <name>
AgentRemove(name) ==
    /\ \E loaded \in BOOLEAN, saved \in BOOLEAN :
          LET loaded_config == Load(toml) IN
          IF ~loaded THEN Returned("remove", name, "err_config") /\ UNCHANGED toml
          ELSE IF name \in Builtins
          THEN Returned("remove", name, "err_builtin") /\ UNCHANGED toml
          ELSE IF name \notin loaded_config.agents
          THEN Returned("remove", name, "err_not_found") /\ UNCHANGED toml
          ELSE IF ~saved THEN Returned("remove", name, "err_save") /\ UNCHANGED toml
          ELSE /\ toml' = Save([agents |-> loaded_config.agents \ {name},
                                default_agent |-> ClearedDefault(loaded_config.default_agent, name)])
               /\ Returned("remove", name, "ok")
    /\ UNCHANGED <<ivars, pvars, fvars>>

\* paks agent default <name>
AgentDefault(name) ==
    /\ \E loaded \in BOOLEAN, saved \in BOOLEAN :
          LET loaded_config == Load(toml) IN
          IF ~loaded THEN Returned("default", name, "err_config") /\ UNCHANGED toml
          ELSE IF name \notin loaded_config.agents
          THEN Returned("default", name, "err_not_found") /\ UNCHANGED toml
          ELSE IF ~saved THEN Returned("default", name, "err_save") /\ UNCHANGED toml
          ELSE /\ toml' = Save([loaded_config EXCEPT !.default_agent = {name}])
               /\ Returned("default", name, "ok")
    /\ UNCHANGED <<ivars, pvars, fvars>>

AgentNext ==
    \/ \E name \in AgentArgs : AgentAdd(name)
    \/ \E name \in AgentArgs : AgentRemove(name)
    \/ \E name \in AgentArgs : AgentDefault(name)

\* ----------------------------------------------------------- specifications
\* install runs, one after the other, on an install_dir that starts empty
\* no function has been applied on its own
FunctionsAtRest == fn = "" /\ fargs = <<>> /\ fret = <<>>

InstallInit ==
    /\ InstallAtRest
    /\ PublishAtRest
    /\ FunctionsAtRest
    /\ AgentsAtRest
    /\ localTags = {}
    /\ remoteTags = {}
    /\ registered = {}
    /\ pstart = Snapshot

InstallSpec == InstallInit /\ [][InstallNext]_vars

\* publish runs, one after the other, on a repository that may hold tags
PublishInit ==
    /\ InstallAtRest
    /\ PublishAtRest
    /\ FunctionsAtRest
    /\ AgentsAtRest
    /\ localTags \in SUBSET InitialTags
    /\ remoteTags = localTags
    /\ registered = {}
    /\ pstart = Snapshot

PublishSpec == PublishInit /\ [][PublishNext]_vars

\* ------------------------------------------------------- publish: claims
PublishDone == ppc = "done"

\* the place of event e in the run's log, 0 when it is not there
Pos(e) == IF \E i \in 1..Len(plog) : plog[i] = e
          THEN CHOOSE i \in 1..Len(plog) : plog[i] = e
          ELSE 0

Happened(e) == Pos(e) > 0

Times(e) == Cardinality({i \in 1..Len(plog) : plog[i] = e})

\* the run has changed the repository, its remote or the registry, or sent a request
Mutated ==
    \/ Snapshot # pstart
    \/ Happened("tag_created")
    \/ Happened("tag_pushed")
    \/ Happened("request_sent")

\* C8: a run with --dry-run never creates or pushes a tag and never sends a
\* request: the repository, its remote and the registry stay as they were; once it
\* has selected a tag it prints the plan, which says whether the tag is new, asks
\* for no confirmation, and returns success
C8_DryRunMutatesNothing ==
    pargs.dry_run =>
        /\ ~Mutated
        /\ ppc \notin {"create", "push", "register"}
        /\ ~Happened("confirmed")
        /\ (PublishDone /\ sel.tag # NoTag) =>
              /\ presult = "ok_dry_run"
              /\ plog[Len(plog)] = (IF sel.needs_create THEN "plan_new_tag"
                                    ELSE "plan_existing_tag")

C8_Witness ==
    /\ PublishDone
    /\ pargs.dry_run
    /\ ~pargs.yes
    /\ presult = "ok_dry_run"
    /\ sel.needs_create
    /\ sel.tag \notin localTags

\* C9: for a new tag the run creates the tag, then pushes it, then sends the
\* registration request, each once, each only when the one before has succeeded
\* (the tag is in the repository before the push, on the remote before the
\* request); for a tag that existed it creates and pushes nothing and the request
\* is the next thing it does
C9_TagThenPushThenRegister ==
    /\ Times("tag_created") <= 1 /\ Times("tag_pushed") <= 1 /\ Times("request_sent") <= 1
    /\ ppc \in {"create", "push"} => sel.needs_create
    /\ Happened("tag_created") <=> (ppc # "idle" /\ localTags # pstart.local)
    /\ Happened("tag_pushed") <=> (ppc # "idle" /\ remoteTags # pstart.remote)
    /\ Happened("tag_created") =>
          /\ sel.needs_create
          /\ sel.tag \notin pstart.local
          /\ localTags = pstart.local \cup {sel.tag}
    /\ Happened("tag_pushed") =>
          /\ Pos("tag_pushed") = Pos("tag_created") + 1
          /\ remoteTags = pstart.remote \cup {sel.tag}
    /\ (Happened("request_sent") /\ sel.needs_create) =>
          Pos("request_sent") = Pos("tag_pushed") + 1
    /\ (ppc # "idle" /\ sel.tag # NoTag /\ ~sel.needs_create) =>
          /\ ~Happened("tag_created") /\ ~Happened("tag_pushed")
          /\ sel.tag \in pstart.local
    /\ ppc = "register" =>
          IF sel.needs_create THEN plog[Len(plog)] = "tag_pushed"
          ELSE ~Happened("tag_created") /\ ~Happened("tag_pushed")
    /\ presult = "ok_published" => (Happened("request_sent") /\ sel.tag \in registered)

C9_Witness ==
    /\ PublishDone
    /\ presult = "ok_published"
    /\ sel.needs_create
    /\ Pos("tag_created") > 0
    /\ Pos("tag_pushed") = Pos("tag_created") + 1
    /\ Pos("request_sent") = Pos("tag_pushed") + 1

\* C10: without --yes, a run creates or pushes a tag or sends a request only after
\* the user has accepted the final confirmation and, when there are uncommitted
\* changes, the prompt about them too; a declined prompt ends the run with
\* repository, remote and registry as they were. With --yes, uncommitted changes
\* are reported and the run goes on
C10_PromptsGuardPublish ==
    /\ (ppc # "idle" /\ ~pargs.yes /\ (Mutated \/ ppc \in {"create", "push", "register"})) =>
          /\ Happened("confirmed")
          /\ changes > 0 => Happened("changes_accepted")
    /\ (Happened("changes_declined") \/ Happened("declined")) =>
          /\ PublishDone
          /\ presult = "ok_aborted"
          /\ ~Mutated
    /\ (pargs.yes /\ changes > 0) =>
          /\ Happened("changes_reported")
          /\ presult # "ok_aborted"
          /\ ppc = "done" => presult # "running"
    /\ changes > 0 =>
          (Happened("changes_reported") \/ Happened("changes_accepted")
             \/ Happened("changes_declined") \/ presult = "err_prompt")

C10_Witness ==
    /\ PublishDone
    /\ ~pargs.yes
    /\ changes > 0
    /\ presult = "ok_published"
    /\ sel.needs_create
    /\ Pos("changes_accepted") < Pos("confirmed")
    /\ Pos("confirmed") < Pos("tag_created")

\* ------------------------------------------------- publish: tag selection
\* the run has gone past tag selection with a tag in hand
Selected == ppc \in {"plan", "create", "push", "register", "done"} /\ sel.tag # NoTag

\* C11, original wording: a --tag argument that gets past selection is itself a
\* semver tag carrying the v prefix, it exists in the repository, and it is the tag
\* the run goes on with
C11_AsClaimed ==
    (pargs.tag # NoTag /\ Selected) =>
        /\ pargs.tag[1] = "v"
        /\ ParseVersion(pargs.tag).ok
        /\ pargs.tag \in pstart.local
        /\ sel.tag = pargs.tag

\* C11: with --tag, the argument with a v put in front when it has none must parse
\* as a version and be a tag of the repository, or the run fails at selection; the
\* run never creates or pushes a tag, and what it registers is exactly that tag
C11_ExplicitTagMustExist ==
    (ppc # "idle" /\ pargs.tag # NoTag) =>
        LET given == IF pargs.tag[1] = "v" THEN pargs.tag ELSE <<"v">> \o pargs.tag
            usable == ParseVersion(given).ok /\ given \in pstart.local
        IN /\ ppc \notin {"create", "push"}
           /\ ~Happened("tag_created") /\ ~Happened("tag_pushed")
           /\ localTags = pstart.local /\ remoteTags = pstart.remote
           /\ Selected => (usable /\ sel.tag = given /\ ~sel.needs_create)
           /\ ~usable =>
                 /\ ~Happened("request_sent")
                 /\ presult \notin {"ok_published", "ok_dry_run"}
                 /\ registered = pstart.registered
           /\ registered \subseteq pstart.registered \cup {given}
           /\ presult = "ok_published" => given \in registered

C11_Witness ==
    /\ PublishDone
    /\ presult = "ok_published"
    /\ pargs.tag = <<"0", ".", "1", ".", "1">>
    /\ sel.tag = <<"v", "0", ".", "1", ".", "1">>
    /\ sel.tag \in registered
    /\ localTags = pstart.local

\* the run was started with --yes and without --tag, and has loaded the manifest
NonInteractive == ppc # "idle" /\ pargs.yes /\ pargs.tag = NoTag /\ manifest # NoManifest

\* the manifest's version, "0.1.0" when it has none
CurrentVersion ==
    IF manifest.version = NoVersion THEN <<"0", ".", "1", ".", "0">> ELSE manifest.version

\* the tag of the patch bump of a parsed version, written out with patch + 1
PatchBumpTag(v) ==
    <<"v">> \o FormatU32(v.major) \o <<".">> \o FormatU32(v.minor) \o <<".">>
        \o FormatU32(v.patch + 1)

\* C12, original wording: a non-interactive run without --tag selects
\* v<major>.<minor>.<patch+1> of the manifest's version (0.1.0 when it has none),
\* always; it fails when that version does not parse or the tag exists, and then
\* creates no tag
C12_AsClaimed ==
    NonInteractive =>
        LET v == ParseVersion(CurrentVersion)
        IN /\ Selected =>
                 /\ v.ok
                 /\ sel.tag = PatchBumpTag(v)
                 /\ sel.needs_create
                 /\ sel.tag \notin pstart.local
           /\ (~v.ok \/ PatchBumpTag(v) \in pstart.local) =>
                 /\ ~Selected
                 /\ localTags = pstart.local /\ remoteTags = pstart.remote
                 /\ presult \notin {"ok_published", "ok_dry_run"}

\* C12 for a patch below the largest u32: the same statement, with the failures
\* told apart; a tag that exists gets past the selection only when `git tag -l`
\* failed, and then it is `git tag` that refuses it
C12_PatchBumpBelowMax ==
    NonInteractive =>
        LET v == ParseVersion(CurrentVersion)
        IN /\ (Selected /\ v.patch < MaxU32) =>
                 /\ v.ok
                 /\ sel.tag = PatchBumpTag(v)
                 /\ sel.needs_create
                 /\ Happened("tag_created") => sel.tag \notin pstart.local
           /\ ~v.ok =>
                 /\ ~Selected
                 /\ localTags = pstart.local /\ remoteTags = pstart.remote
                 /\ PublishDone => presult \in {"err_version", "err_validation", "err_git",
                                                "err_not_repo", "err_no_origin",
                                                "err_detached"}
           /\ (v.ok /\ v.patch < MaxU32 /\ PatchBumpTag(v) \in pstart.local) =>
                 /\ localTags = pstart.local /\ remoteTags = pstart.remote
                 /\ registered = pstart.registered
                 /\ PublishDone => presult \in {"err_tag_exists", "err_create_tag",
                                                "ok_dry_run", "err_validation", "err_git",
                                                "err_not_repo", "err_no_origin",
                                                "err_detached"}
                 /\ (PublishDone /\ presult = "ok_dry_run") => Happened("plan_new_tag")

\* the patch is the largest u32 and the run goes on with patch 0
C12_Witness ==
    /\ NonInteractive
    /\ Selected
    /\ ParseVersion(CurrentVersion).ok
    /\ ParseVersion(CurrentVersion).patch = MaxU32
    /\ sel.tag = <<"v", "0", ".", "1", ".", "0">>
    /\ sel.tag \in localTags
    /\ sel.tag \notin pstart.local

\* ------------------------------------------------------ publish: registration
\* the run has read the configuration
ConfigRead == config \notin {NoConfig, BadConfig}

\* C13: a run that reads a configuration in which no registry holds a token ends in
\* the not-authenticated error, which names `paks login`, and has sent no request to
\* the publish endpoint; the registry has what it had
C13_NoTokenNoRequest ==
    (ConfigRead /\ config.tokens = {}) =>
        /\ PublishDone
        /\ presult = "err_not_authenticated"
        /\ ~Happened("request_sent")
        /\ registered = pstart.registered

C13_Witness ==
    /\ ConfigRead
    /\ config.tokens = {}
    /\ presult = "err_not_authenticated"
    /\ Happened("tag_pushed")

\* ------------------------------------------------------- publish: validation
\* the run has loaded the skill
Loaded == ppc # "idle" /\ manifest # NoManifest

\* C14: without --skip-validation a manifest that validate() rejects ends the run
\* at once, with nothing done after the validation: no git check, no selection, no
\* tag, no request; only a rejected manifest ends a run that way, warnings are
\* printed and the run goes on; with --skip-validation validate() is not run and a
\* manifest it would reject goes through
C14_ValidationGate ==
    /\ (Loaded /\ ~pargs.skip_validation /\ manifest.valid = "error") =>
          /\ PublishDone
          /\ presult = "err_validation"
          /\ plog = <<"validate">>
          /\ changes = 0 /\ sel = NoSelection /\ config = NoConfig
          /\ ~Mutated
    /\ presult = "err_validation" =>
          (~pargs.skip_validation /\ manifest.valid = "error")
    /\ (Loaded /\ ~pargs.skip_validation /\ manifest.valid = "warnings") =>
          /\ Len(plog) >= 2 /\ plog[1] = "validate" /\ plog[2] = "warning"
          /\ ppc # "load"
    /\ (Loaded /\ ~pargs.skip_validation /\ manifest.valid = "clean") =>
          /\ Len(plog) >= 1 /\ plog[1] = "validate"
          /\ ~Happened("warning")
    /\ (ppc # "idle" /\ pargs.skip_validation) =>
          /\ ~Happened("validate") /\ ~Happened("warning")
          /\ Loaded => ppc # "load"

C14_Witness ==
    /\ PublishDone
    /\ ~pargs.skip_validation
    /\ manifest.valid = "error"
    /\ presult = "err_validation"

\* a manifest that validate() would reject is published with --skip-validation
C14_WitnessSkipped ==
    /\ PublishDone
    /\ pargs.skip_validation
    /\ manifest.valid = "error"
    /\ presult = "ok_published"

\* ------------------------------------------------------- publish: git checks
\* the run has gone past the git checks
PastGitChecks == ppc \in {"dirty", "select", "plan", "create", "push", "register"}
                 \/ (PublishDone /\ (changes # 0 \/ sel # NoSelection \/ Mutated))

\* C15: when the skill path is outside a git work tree, or the repository has no
\* remote origin, or HEAD is detached, the run ends at the git checks in the error
\* of the first of them that fails: no tag is selected, none is created or pushed, nothing is sent
C15_GitChecksGate ==
    (repo # NoRepo /\ (~repo.work_tree \/ ~repo.origin \/ repo.head = "HEAD")) =>
        /\ ~PastGitChecks
        /\ sel = NoSelection
        /\ ~Mutated
        /\ PublishDone
        /\ presult = (IF ~repo.work_tree THEN "err_not_repo"
                      ELSE IF ~repo.origin THEN "err_no_origin"
                      ELSE "err_detached")

C15_Witness ==
    /\ PublishDone
    /\ repo.work_tree /\ repo.origin /\ repo.head = "HEAD"
    /\ presult = "err_detached"
    /\ localTags # {}

\* ---------------------------------------------------- install: registry lookup
\* a registry run has the answer of the install-info endpoint, or none
LookedUp == iargs.kind = "registry" /\ info # NoInfo

\* C16: in a registry install a 404 from the install-info endpoint ends the run in
\* the not-found error and a 403 in the access-denied error, each for that status
\* only; any other failure (no answer, another error status, a body that does not
\* parse) ends it in the fetch error, which carries the ApiError; in all three
\* nothing is cloned and install_dir stays as it was
C16_LookupErrors ==
    LookedUp =>
        /\ info.status = 404 <=> outcome = "err_not_found"
        /\ info.status = 403 <=> outcome = "err_access_denied"
        /\ (info.status \notin {200, 201, 403, 404} \/ info.error = "Parse") <=>
              outcome = "err_fetch"
        /\ outcome = "err_fetch" =>
              info.error \in {"Request", "Parse", "InvalidToken", "RateLimited", "Api"}
        /\ outcome \in {"err_not_found", "err_access_denied", "err_fetch"} =>
              /\ InstallDone
              /\ done = {}
              /\ ~ws.exists
              /\ target = ""
              /\ fs = start

C16_Witness ==
    /\ LookedUp
    /\ InstallDone
    /\ info.status = 404
    /\ outcome = "err_not_found"
    /\ \E l \in Locs : fs[l].exists

C16_WitnessDenied ==
    /\ LookedUp
    /\ InstallDone
    /\ info.status = 403
    /\ outcome = "err_access_denied"

\* ------------------------------------------------------------------ strings
\* the strings over an alphabet, up to a length
Strings(alphabet, n) == UNION {[1..k -> alphabet] : k \in 0..n}

\* str::starts_with
StartsWith(s, p) == Len(s) >= Len(p) /\ SubSeq(s, 1, Len(p)) = p

\* str::contains, for a pattern
Contains(s, p) == \E i \in 1..Len(s) : StartsWith(SubSeq(s, i, Len(s)), p)

\* str::rfind(c): the place of the last c, 0 for None
RFind(s, c) ==
    IF \E i \in 1..Len(s) : s[i] = c
    THEN CHOOSE i \in 1..Len(s) : s[i] = c /\ \A j \in (i + 1)..Len(s) : s[j] # c
    ELSE 0

LowercaseChars ==
    {"a", "b", "c", "d", "e", "f", "g", "h", "i", "j", "k", "l", "m",
     "n", "o", "p", "q", "r", "s", "t", "u", "v", "w", "x", "y", "z"}

UppercaseChars ==
    {"A", "B", "C", "D", "E", "F", "G", "H", "I", "J", "K", "L", "M",
     "N", "O", "P", "Q", "R", "S", "T", "U", "V", "W", "X", "Y", "Z"}

\* `c.is_ascii_lowercase() || c.is_ascii_digit() || c == '-'`
IsNameChar(c) == c \in LowercaseChars \/ IsDigit(c) \/ c = "-"

\* ---------------------------------------------------- install: the source
\* the longest account name SkillRef::parse takes
MaxAccountLen == 39

\* the longest skill name SkillRef::parse takes
MaxNameLen == 64

SkillRefErr(e) ==
    [ok |-> FALSE, account |-> <<>>, name |-> <<>>, version |-> NoVersion, error |-> e]

\* SkillRef::parse: account/skill[@version]; version <<>> for None
SkillRefParse(input) ==
    LET at_pos == RFind(input, "@")
        identifier == IF at_pos > 0 THEN SubSeq(input, 1, at_pos - 1) ELSE input
        version == IF at_pos > 0 THEN SubSeq(input, at_pos + 1, Len(input)) ELSE NoVersion
        parts == Split(identifier, "/")
    IN IF at_pos > 0 /\ Len(version) = 0 THEN SkillRefErr("empty_version")
       ELSE IF Len(parts) # 2 THEN SkillRefErr("format")
       ELSE LET account == parts[1]
                name == parts[2]
            IN IF Len(account) = 0 \/ Len(account) > MaxAccountLen
               THEN SkillRefErr("account_length")
               ELSE IF \E i \in 1..Len(account) : ~IsNameChar(account[i])
               THEN SkillRefErr("account_chars")
               ELSE IF Len(name) = 0 \/ Len(name) > MaxNameLen
               THEN SkillRefErr("name_length")
               ELSE IF \E i \in 1..Len(name) : ~IsNameChar(name[i])
               THEN SkillRefErr("name_chars")
               ELSE [ok |-> TRUE, account |-> account, name |-> name,
                     version |-> version, error |-> ""]

\* the prefixes of a git URL
GitPrefixes ==
    {<<"h", "t", "t", "p", "s", ":", "/", "/">>, <<"h", "t", "t", "p", ":", "/", "/">>,
     <<"g", "i", "t", "@">>, <<"s", "s", "h", ":", "/", "/">>}

\* the prefixes of a local path
PathPrefixes == {<<".", "/">>, <<".", ".", "/">>, <<"/">>}

\* a SourceType: Git of the input, Local of the path, Registry of the SkillRef
SourceType(kind, source, ref) ==
    [kind |-> kind, source |-> source, account |-> ref.account, name |-> ref.name,
     version |-> ref.version]

NoRef == SkillRefErr("")

\* the registry reference is tried before the directory is looked for
DetectSourceTypeRegistryFirst(source, on_disk) ==
    IF \E p \in GitPrefixes : StartsWith(source, p) THEN SourceType("git", source, NoRef)
    ELSE IF \E p \in PathPrefixes : StartsWith(source, p)
    THEN SourceType("local", source, NoRef)
    ELSE IF Len(source) >= 2 /\ source[2] = ":" THEN SourceType("local", source, NoRef)
    ELSE IF SkillRefParse(source).ok
    THEN SourceType("registry", source, SkillRefParse(source))
    ELSE SourceType("local", source, NoRef)

\* detect_source_type; on_disk: `path.exists() && path.join("SKILL.md").exists()`
DetectSourceType(source, on_disk) ==
    IF \E p \in GitPrefixes : StartsWith(source, p) THEN SourceType("git", source, NoRef)
    ELSE IF \E p \in PathPrefixes : StartsWith(source, p)
    THEN SourceType("local", source, NoRef)
    ELSE IF Len(source) >= 2 /\ source[2] = ":" THEN SourceType("local", source, NoRef)
    ELSE IF on_disk THEN SourceType("local", source, NoRef)
    ELSE IF SkillRefParse(source).ok
    THEN SourceType("registry", source, SkillRefParse(source))
    ELSE IF Contains(source, <<"/">>) /\ ~Contains(source, <<":", "/", "/">>)
    THEN (IF SkillRefParse(source).ok
          THEN SourceType("registry", source, SkillRefParse(source))
          ELSE SourceType("local", source, NoRef))
    ELSE SourceType("local", source, NoRef)

\* the longest rest of a source after its prefix
MaxSourceLen == 3

\* what a source can start with: nothing, a git or path prefix, a drive or something
\* like one
SourcePrefixes ==
    {<<>>, <<"C", ":">>, <<"1", ":">>} \cup GitPrefixes \cup PathPrefixes

SourceInputs ==
    {p \o b : p \in SourcePrefixes, b \in Strings({"a", "1", "-", "/", "@", ":"}, MaxSourceLen)}

\* detect_source_type is called
ApplyDetectSourceType ==
    /\ fn = ""
    /\ \E source \in SourceInputs, on_disk \in BOOLEAN :
          /\ fn' = "detect_source_type"
          /\ fargs' = [source |-> source, on_disk |-> on_disk]
          /\ fret' = DetectSourceType(source, on_disk)
    /\ UNCHANGED <<ivars, pvars, avars>>

\* C17: detect_source_type answers for every input, by the first rule that applies:
\* a git prefix gives Git; a path prefix or a drive letter with a colon gives Local;
\* a directory on disk with SKILL.md gives Local; a reference that parses gives
\* Registry with its account, name and version; anything else gives Local of the
\* input as given
C17_DetectSourceTypeRules ==
    fn = "detect_source_type" =>
        LET s == fargs.source
            rule1 == \E p \in GitPrefixes : StartsWith(s, p)
            rule2 == \/ \E p \in PathPrefixes : StartsWith(s, p)
                     \/ /\ Len(s) >= 2
                        /\ s[1] \in LowercaseChars \cup UppercaseChars
                        /\ s[2] = ":"
            rule3 == fargs.on_disk
            rule4 == SkillRefParse(s).ok
        IN /\ fret.kind \in {"git", "local", "registry"}
           /\ fret.kind = (IF rule1 THEN "git"
                           ELSE IF rule2 \/ rule3 THEN "local"
                           ELSE IF rule4 THEN "registry"
                           ELSE "local")
           /\ fret.kind = "local" => fret.source = s
           /\ fret.kind = "registry" =>
                 /\ fret.account = SkillRefParse(s).account
                 /\ fret.name = SkillRefParse(s).name
                 /\ fret.version = SkillRefParse(s).version

\* a reference that parses names a directory with SKILL.md: Local
C17_Witness ==
    /\ fn = "detect_source_type"
    /\ fargs.source = <<"a", "/", "a">>
    /\ fargs.on_disk
    /\ SkillRefParse(fargs.source).ok
    /\ fret.kind = "local"

\* --------------------------------------------------- install: the reference
\* the longest reference tried character by character
MaxRefLen == 5

\* n times the letter a
Run(n) == [i \in 1..n |-> "a"]

\* references: every short string over a few characters, and accounts and names at
\* and past their longest
RefInputs ==
    Strings({"a", "A", "1", "-", "/", "@"}, MaxRefLen)
    \cup {account \o <<"/">> \o name \o version :
            account \in {Run(MaxAccountLen), Run(MaxAccountLen + 1)},
            name \in {Run(MaxNameLen), Run(MaxNameLen + 1)},
            version \in {<<>>, <<"@", "1">>}}

\* SkillRef::parse is called
ApplySkillRefParse ==
    /\ fn = ""
    /\ \E input \in RefInputs :
          /\ fn' = "SkillRef::parse"
          /\ fargs' = [input |-> input]
          /\ fret' = SkillRefParse(input)
    /\ UNCHANGED <<ivars, pvars, avars>>

\* the input cut at its last '@', and the identifier cut at its '/'
RefVersion(s) ==
    IF \E i \in 1..Len(s) : s[i] = "@"
    THEN SubSeq(s, (CHOOSE i \in 1..Len(s) :
                        s[i] = "@" /\ \A j \in (i + 1)..Len(s) : s[j] # "@") + 1, Len(s))
    ELSE <<>>

RefIdentifier(s) ==
    IF \E i \in 1..Len(s) : s[i] = "@"
    THEN SubSeq(s, 1, Len(s) - Len(RefVersion(s)) - 1)
    ELSE s

Slashes(s) == {i \in 1..Len(s) : s[i] = "/"}

RefAccount(s) ==
    SubSeq(RefIdentifier(s), 1, (CHOOSE i \in Slashes(RefIdentifier(s)) : TRUE) - 1)

RefName(s) ==
    SubSeq(RefIdentifier(s), (CHOOSE i \in Slashes(RefIdentifier(s)) : TRUE) + 1,
           Len(RefIdentifier(s)))

\* 1 to max characters, each a lowercase letter, a digit or a hyphen
WellFormedName(x, max) ==
    /\ Len(x) >= 1 /\ Len(x) <= max
    /\ \A i \in 1..Len(x) : x[i] \in LowercaseChars \/ x[i] \in {"0", "1", "2", "3", "4", "5", "6", "7", "8", "9", "-"}

\* no hyphen in front, none at the end, no two in a row
HyphensInside(x) ==
    /\ x[1] # "-"
    /\ x[Len(x)] # "-"
    /\ \A i \in 1..(Len(x) - 1) : ~(x[i] = "-" /\ x[i + 1] = "-")

\* what the reference must be like, but for the hyphens of the name
RefShape(s) ==
    /\ (\E i \in 1..Len(s) : s[i] = "@") => RefVersion(s) # <<>>
    /\ Cardinality(Slashes(RefIdentifier(s))) = 1
    /\ WellFormedName(RefAccount(s), 39)
    /\ WellFormedName(RefName(s), 64)

\* C18, original wording: SkillRef::parse accepts an input exactly when, cut at the
\* last '@' with a non-empty version after it, the identifier has two parts, the
\* account has 1 to 39 and the name 1 to 64 characters of [a-z0-9-], and the name has
\* no leading, trailing or double hyphen; account, name and version are those parts
C18_AsClaimed ==
    fn = "SkillRef::parse" =>
        LET s == fargs.input
        IN /\ fret.ok <=> (RefShape(s) /\ HyphensInside(RefName(s)))
           /\ fret.ok =>
                 /\ fret.account = RefAccount(s)
                 /\ fret.name = RefName(s)
                 /\ fret.version = RefVersion(s)

\* C18 without the rules on hyphens: SkillRef::parse accepts exactly the inputs of
\* that shape, wherever the hyphens of the name are
C18_ParseIgnoresHyphens ==
    fn = "SkillRef::parse" =>
        LET s == fargs.input
        IN /\ fret.ok <=> RefShape(s)
           /\ fret.ok =>
                 /\ fret.account = RefAccount(s)
                 /\ fret.name = RefName(s)
                 /\ fret.version = RefVersion(s)

\* a name that starts with a hyphen is accepted
C18_Witness ==
    /\ fn = "SkillRef::parse"
    /\ fargs.input = <<"a", "/", "-", "a">>
    /\ fret.ok
    /\ fret.name = <<"-", "a">>

\* ------------------------------------------------- the manifest: validation
\* the limits of SkillFrontmatter::validate
MaxSkillNameLen == 64

MaxDescriptionLen == 1024

ShortDescriptionLen == 20

MaxCompatibilityLen == 500

\* a text by its number of characters and its number of bytes in UTF-8
Text(chars, bytes) == [some |-> TRUE, chars |-> chars, bytes |-> bytes]

\* Option::None for the compatibility field
NoText == [some |-> FALSE, chars |-> 0, bytes |-> 0]

\* String::len: the length in bytes
StrLen(t) == t.bytes

\* the length in characters
StrLenInChars(t) == t.chars

\* texts of plain ASCII around a limit, and texts of three-byte characters: a short
\* one, and one under the limit in characters and over it in bytes
TextSamples(limit) ==
    {Text(n, n) : n \in {0, 1, ShortDescriptionLen - 1, ShortDescriptionLen, limit, limit + 1}}
    \cup {Text(7, 21), Text((limit \div 3) + 1, 3 * ((limit \div 3) + 1))}

\* the longest name tried character by character
MaxNameInputLen == 4

NameInputs ==
    Strings({"a", "A", "1", "-"}, MaxNameInputLen)
    \cup {Run(MaxSkillNameLen), Run(MaxSkillNameLen + 1)}

ValidateErr(e) == [ok |-> FALSE, warnings |-> <<>>, error |-> e]

\* SkillFrontmatter::validate, with the lengths counted in characters
ValidateCountingChars(name, description, compatibility) ==
    IF Len(name) = 0 \/ Len(name) > MaxSkillNameLen THEN ValidateErr("name_length")
    ELSE IF \E i \in 1..Len(name) : ~IsNameChar(name[i]) THEN ValidateErr("name_chars")
    ELSE IF name[1] = "-" \/ name[Len(name)] = "-" THEN ValidateErr("name_hyphen")
    ELSE IF Contains(name, <<"-", "-">>) THEN ValidateErr("name_hyphens")
    ELSE IF StrLenInChars(description) = 0 \/ StrLenInChars(description) > MaxDescriptionLen
    THEN ValidateErr("description_length")
    ELSE IF compatibility.some /\ StrLenInChars(compatibility) > MaxCompatibilityLen
    THEN ValidateErr("compatibility_length")
    ELSE [ok |-> TRUE,
          warnings |-> IF StrLenInChars(description) < ShortDescriptionLen
                       THEN <<"very_short">> ELSE <<>>,
          error |-> ""]

\* SkillFrontmatter::validate: Err, or Ok with the warnings
Validate(name, description, compatibility) ==
    IF Len(name) = 0 \/ Len(name) > MaxSkillNameLen THEN ValidateErr("name_length")
    ELSE IF \E i \in 1..Len(name) : ~IsNameChar(name[i]) THEN ValidateErr("name_chars")
    ELSE IF name[1] = "-" \/ name[Len(name)] = "-" THEN ValidateErr("name_hyphen")
    ELSE IF Contains(name, <<"-", "-">>) THEN ValidateErr("name_hyphens")
    ELSE IF StrLen(description) = 0 \/ StrLen(description) > MaxDescriptionLen
    THEN ValidateErr("description_length")
    ELSE IF compatibility.some /\ StrLen(compatibility) > MaxCompatibilityLen
    THEN ValidateErr("compatibility_length")
    ELSE [ok |-> TRUE,
          warnings |-> IF StrLen(description) < ShortDescriptionLen
                       THEN <<"very_short">> ELSE <<>>,
          error |-> ""]

\* validate is called on a frontmatter
ApplyValidate ==
    /\ fn = ""
    /\ \E name \in NameInputs, description \in TextSamples(MaxDescriptionLen),
          compatibility \in TextSamples(MaxCompatibilityLen) \cup {NoText} :
          /\ fn' = "validate"
          /\ fargs' = [name |-> name, description |-> description,
                       compatibility |-> compatibility]
          /\ fret' = Validate(name, description, compatibility)
    /\ UNCHANGED <<ivars, pvars, avars>>

\* the name is 1 to 64 characters of [a-z0-9-] with its hyphens inside and single
ValidName(name) ==
    /\ Len(name) >= 1 /\ Len(name) <= 64
    /\ \A i \in 1..Len(name) :
          name[i] \in LowercaseChars \cup {"0", "1", "2", "3", "4", "5", "6", "7", "8", "9", "-"}
    /\ name[1] # "-" /\ name[Len(name)] # "-"
    /\ \A i \in 1..(Len(name) - 1) : ~(name[i] = "-" /\ name[i + 1] = "-")

\* C19, original wording: validate fails exactly when the name is not valid, or the
\* description is empty or longer than 1024 characters, or the compatibility field
\* is longer than 500 characters; otherwise it succeeds, with the 'very short'
\* warning exactly when the description is shorter than 20 characters
C19_AsClaimed ==
    fn = "validate" =>
        /\ ~fret.ok <=>
              \/ ~ValidName(fargs.name)
              \/ fargs.description.chars = 0
              \/ fargs.description.chars > 1024
              \/ (fargs.compatibility.some /\ fargs.compatibility.chars > 500)
        /\ fret.ok =>
              fret.warnings = (IF fargs.description.chars < 20 THEN <<"very_short">> ELSE <<>>)

\* C19 with the lengths of description and compatibility taken in bytes
C19_ValidateCountsBytes ==
    fn = "validate" =>
        /\ ~fret.ok <=>
              \/ ~ValidName(fargs.name)
              \/ fargs.description.bytes = 0
              \/ fargs.description.bytes > 1024
              \/ (fargs.compatibility.some /\ fargs.compatibility.bytes > 500)
        /\ fret.ok =>
              fret.warnings = (IF fargs.description.bytes < 20 THEN <<"very_short">> ELSE <<>>)

\* a description of 342 characters in 1026 bytes is refused
C19_Witness ==
    /\ fn = "validate"
    /\ ValidName(fargs.name)
    /\ fargs.description.chars = 342
    /\ fargs.description.bytes = 1026
    /\ ~fargs.compatibility.some
    /\ ~fret.ok
    /\ fret.error = "description_length"

\* ------------------------------------------------------ version strings tried
\* the longest version string tried character by character
MaxVersionLen == 6

\* a part one past the largest u32
PastMaxU32 == FormatU32(MaxU32 + 1)

\* every short string over v, 1, ., +, x; the examples of three parts at the edge
\* of u32, of a prerelease suffix and of a doubled prefix
VersionInputs ==
    Strings({"v", "1", ".", "+", "x"}, MaxVersionLen)
    \cup {<<"1", ".", "2", ".", "3">>, <<"v", "1", ".", "2", ".", "3">>,
          <<"v", "v", "1", ".", "2", ".", "3">>,
          <<"0", "1", ".", "2", ".", "3">>,
          <<"1", ".", "2", ".", "3", "-", "r", "c">>,
          <<"1", ".", "2", ".", "3", "-", "r", "c", ".", "1">>,
          <<"1", ".", "2", ".">> \o FormatU32(MaxU32),
          <<"1", ".", "2", ".">> \o PastMaxU32,
          <<"v">> \o PastMaxU32 \o <<".", "2", ".", "3">>}

\* parse_version is called on a string
ApplyParseVersion ==
    /\ fn = ""
    /\ \E version \in VersionInputs :
          /\ fn' = "parse_version"
          /\ fargs' = version
          /\ fret' = ParseVersion(version)
    /\ UNCHANGED <<ivars, pvars, avars>>

\* filter_semver_tags is called on the tags of a repository
ApplyFilterSemverTags ==
    /\ fn = ""
    /\ \E tags \in SUBSET (InitialTags \cup ExplicitTags \cup CustomInputs) :
          /\ fn' = "filter_semver_tags"
          /\ fargs' = tags
          /\ fret' = FilterSemverTags(tags)
    /\ UNCHANGED <<ivars, pvars, avars>>

\* the string after at most one leading 'v'
VersionBody == IF Len(fargs) > 0 /\ fargs[1] = "v" THEN SubSeq(fargs, 2, Len(fargs)) ELSE fargs

\* the places of the dots
Dots == {i \in 1..Len(VersionBody) : VersionBody[i] = "."}

FirstDot == CHOOSE i \in Dots : \A j \in Dots : i <= j

LastDot == CHOOSE i \in Dots : \A j \in Dots : j <= i

\* the three parts, when there are exactly two dots
VersionParts ==
    <<SubSeq(VersionBody, 1, FirstDot - 1),
      SubSeq(VersionBody, FirstDot + 1, LastDot - 1),
      SubSeq(VersionBody, LastDot + 1, Len(VersionBody))>>

\* a non-negative integer in decimal: digits, at least one
IsNonNegativeInteger(p) ==
    /\ Len(p) >= 1
    /\ \A i \in 1..Len(p) : p[i] \in {"0", "1", "2", "3", "4", "5", "6", "7", "8", "9"}

\* what Rust reads as a number: the digits after an optional '+'
Unsigned(p) == IF Len(p) > 0 /\ p[1] = "+" THEN SubSeq(p, 2, Len(p)) ELSE p

\* the number a digit string denotes
RECURSIVE NumberOf(_)
NumberOf(p) ==
    IF Len(p) = 0 THEN 0
    ELSE NumberOf(SubSeq(p, 1, Len(p) - 1)) * 10
         + (CHOOSE d \in 0..9 : DigitChars[d + 1] = p[Len(p)])

\* C20, original wording: parse_version strips at most one leading 'v', splits on
\* '.', and succeeds exactly when there are exactly three parts and each is a
\* non-negative integer, returning the three numbers; a tag counts as a semver tag
\* exactly when parse_version succeeds on it
C20_AsClaimed ==
    /\ fn = "parse_version" =>
          /\ fret.ok <=>
                /\ Cardinality(Dots) = 2
                /\ \A k \in 1..3 : IsNonNegativeInteger(VersionParts[k])
          /\ fret.ok =>
                /\ fret.major = NumberOf(VersionParts[1])
                /\ fret.minor = NumberOf(VersionParts[2])
                /\ fret.patch = NumberOf(VersionParts[3])
    /\ fn = "filter_semver_tags" =>
          fret = {t \in fargs : ParseVersion(t).ok}

\* C20 with the parts as str::parse::<u32> reads them: digits after an optional
\* '+', with a value of at most u32::MAX
C20_PartsAreU32 ==
    /\ fn = "parse_version" =>
          /\ fret.ok <=>
                /\ Cardinality(Dots) = 2
                /\ \A k \in 1..3 :
                      /\ IsNonNegativeInteger(Unsigned(VersionParts[k]))
                      /\ NumberOf(Unsigned(VersionParts[k])) <= MaxU32
          /\ fret.ok =>
                /\ fret.major = NumberOf(Unsigned(VersionParts[1]))
                /\ fret.minor = NumberOf(Unsigned(VersionParts[2]))
                /\ fret.patch = NumberOf(Unsigned(VersionParts[3]))
    /\ fn = "filter_semver_tags" =>
          fret = {t \in fargs : ParseVersion(t).ok}

\* "+1.1.1" is read as the version (1, 1, 1)
C20_Witness ==
    /\ fn = "parse_version"
    /\ fargs = <<"+", "1", ".", "1", ".", "1">>
    /\ fret.ok
    /\ fret.major = 1 /\ fret.minor = 1 /\ fret.patch = 1

\* three parts of digits, the last one past u32::MAX, are refused
C20_WitnessPastMax ==
    /\ fn = "parse_version"
    /\ fargs = <<"1", ".", "2", ".">> \o PastMaxU32
    /\ ~fret.ok

\* -------------------------------------------------------------- version bumps
\* what a bump gives: the rendered tag, or the abort of the overflow check
Bumped(tag) == [panic |-> FALSE, tag |-> tag]

BumpPanic == [panic |-> TRUE, tag |-> <<>>]

BumpKinds == {"patch", "minor", "major"}

\* the bump arms of prompt_tag_selection and the patch bump of run:
\* format!("v{}.{}.{}", ...) of the parsed version with one component plus one
BumpTags(kind, v) ==
    CASE kind = "patch" ->
            {IF p = -1 THEN BumpPanic ELSE Bumped(FormatTag(v.major, v.minor, p)) :
                p \in AddOne(v.patch)}
      [] kind = "minor" ->
            {IF n = -1 THEN BumpPanic ELSE Bumped(FormatTag(v.major, n, 0)) :
                n \in AddOne(v.minor)}
      [] kind = "major" ->
            {IF m = -1 THEN BumpPanic ELSE Bumped(FormatTag(m, 0, 0)) :
                m \in AddOne(v.major)}

\* the components tried: small ones, and the two largest
BumpComponents == {0, 1, 9, MaxU32 - 1, MaxU32}

\* the versions bumped, with and without the prefix
BumpInputs ==
    LET plain == {FormatU32(a) \o <<".">> \o FormatU32(b) \o <<".">> \o FormatU32(c) :
                     a \in BumpComponents, b \in BumpComponents, c \in BumpComponents}
    IN plain \cup {<<"v">> \o s : s \in plain}

\* a version is parsed and bumped
ApplyBump ==
    /\ fn = ""
    /\ \E version \in BumpInputs, kind \in BumpKinds :
          /\ ParseVersion(version).ok
          /\ \E r \in BumpTags(kind, ParseVersion(version)) :
                /\ fn' = "bump"
                /\ fargs' = [version |-> version, kind |-> kind]
                /\ fret' = r
    /\ UNCHANGED <<ivars, pvars, avars>>

\* the version bumped, as numbers
BumpedFrom == ParseVersion(fargs.version)

\* "v<a>.<b>.<c>"
Rendered(a, b, c) ==
    <<"v">> \o FormatU32(a) \o <<".">> \o FormatU32(b) \o <<".">> \o FormatU32(c)

\* the tag the bump is to render
ExpectedBump ==
    CASE fargs.kind = "patch" -> Rendered(BumpedFrom.major, BumpedFrom.minor, BumpedFrom.patch + 1)
      [] fargs.kind = "minor" -> Rendered(BumpedFrom.major, BumpedFrom.minor + 1, 0)
      [] fargs.kind = "major" -> Rendered(BumpedFrom.major + 1, 0, 0)

\* the component the bump adds one to
BumpedComponent ==
    CASE fargs.kind = "patch" -> BumpedFrom.patch
      [] fargs.kind = "minor" -> BumpedFrom.minor
      [] fargs.kind = "major" -> BumpedFrom.major

\* C21, original wording: for a parsed version (major, minor, patch) the patch bump
\* renders v<major>.<minor>.<patch+1>, the minor bump v<major>.<minor+1>.0 and the
\* major bump v<major+1>.0.0; every rendered tag starts with 'v' and itself parses
\* as a version
C21_AsClaimed ==
    fn = "bump" =>
        /\ ~fret.panic
        /\ fret.tag = ExpectedBump
        /\ fret.tag[1] = "v"
        /\ ParseVersion(fret.tag).ok

\* C21 for a bumped component below the largest u32; a tag that is rendered starts
\* with 'v' and parses, whatever the component
C21_BumpBelowMax ==
    fn = "bump" =>
        /\ BumpedComponent < MaxU32 =>
              /\ ~fret.panic
              /\ fret.tag = ExpectedBump
        /\ ~fret.panic =>
              /\ fret.tag[1] = "v"
              /\ ParseVersion(fret.tag).ok

\* the minor bump of a version whose minor is the largest u32 renders minor 0
C21_Witness ==
    /\ fn = "bump"
    /\ fargs.kind = "minor"
    /\ BumpedFrom.minor = MaxU32
    /\ ~fret.panic
    /\ ParseVersion(fret.tag).ok
    /\ ParseVersion(fret.tag).minor = 0
    /\ ParseVersion(fret.tag).major = BumpedFrom.major

\* the version of the rendered tag is above the version bumped, component by
\* component from the left
AboveBumpedFrom(t) ==
    \/ t.major > BumpedFrom.major
    \/ t.major = BumpedFrom.major /\ t.minor > BumpedFrom.minor
    \/ t.major = BumpedFrom.major /\ t.minor = BumpedFrom.minor /\ t.patch > BumpedFrom.patch

\* C30, original wording: for every version parse_version accepts, with components
\* up to the largest u32, each of the three bumps yields a tag whose version is
\* strictly greater than the parsed version: the increment neither wraps around to
\* a smaller number nor aborts the run
C30_AsClaimed ==
    fn = "bump" =>
        /\ ~fret.panic
        /\ ParseVersion(fret.tag).ok
        /\ AboveBumpedFrom(ParseVersion(fret.tag))

\* C30 for a bumped component below the largest u32: the bump does not abort and
\* its tag is strictly greater; at the largest u32 it aborts or gives a smaller one
C30_GreaterBelowMax ==
    fn = "bump" =>
        IF BumpedComponent < MaxU32
        THEN /\ ~fret.panic
             /\ ParseVersion(fret.tag).ok
             /\ AboveBumpedFrom(ParseVersion(fret.tag))
        ELSE \/ fret.panic
             \/ /\ ParseVersion(fret.tag).ok
                /\ ~AboveBumpedFrom(ParseVersion(fret.tag))

\* the patch bump of a version whose patch is the largest u32 aborts the run
C30_Witness ==
    /\ fn = "bump"
    /\ fargs.kind = "patch"
    /\ BumpedFrom.patch = MaxU32
    /\ fret.panic

\* the major bump of a version whose major is the largest u32 gives v0.0.0
C30_WitnessWrapped ==
    /\ fn = "bump"
    /\ fargs.kind = "major"
    /\ BumpedFrom.major = MaxU32
    /\ ~fret.panic
    /\ fret.tag = <<"v", "0", ".", "0", ".", "0">>

\* ------------------------------------------------------------- copying a tree
\* an entry of a directory: a directory with its entries by name, a regular file
\* with its bytes, a symbolic link with its target
NoEntries == [n \in {} |-> ""]

NoNode == [kind |-> "none", data |-> "", entries |-> NoEntries]

FileNode == [kind |-> "file", data |-> "bytes", entries |-> NoEntries]

SymlinkNode == [kind |-> "symlink", data |-> "target", entries |-> NoEntries]

DirNode(entries) == [kind |-> "dir", data |-> "", entries |-> entries]

\* the file names tried
EntryNames == <<".git", "a">>

\* the deepest nesting of directories in a source tree
MaxDepth == 2

\* what an entry that is not a directory can be: .git as the file a worktree has
NonDirs(name) == IF name = ".git" THEN {FileNode} ELSE {FileNode, SymlinkNode}

\* every directory whose entries nest at most `depth` deep
RECURSIVE DirNodes(_)
DirNodes(depth) ==
    IF depth = 0 THEN {DirNode(NoEntries)}
    ELSE LET below == DirNodes(depth - 1)
             names == {EntryNames[i] : i \in 1..Len(EntryNames)}
         IN {DirNode(e) : e \in UNION {{f \in [present -> {FileNode, SymlinkNode} \cup below] :
                                           \A n \in present : f[n] \in NonDirs(n) \cup below} :
                                        present \in SUBSET names}}

\* the order read_dir yields the entries in
Reverse(s) == [i \in 1..Len(s) |-> s[Len(s) + 1 - i]]

ReadDirOrders == {EntryNames, Reverse(EntryNames)}

\* the operation that fails: `left` operations succeed before it, none fails when
\* left is -1
Fails(left) == left = 0

After(left) == IF left > 0 THEN left - 1 ELSE left

\* the entries with `name` written
WithEntry(entries, name, node) ==
    [m \in DOMAIN entries \cup {name} |-> IF m = name THEN node ELSE entries[m]]

\* the .git check left out
SkipsEntryNever(name, node) == FALSE

\* "Skip .git directories": the entry is a directory and its file name is .git
SkipsEntry(name, node) == node.kind = "dir" /\ name = ".git"

\* copy_dir_recursive(src, dst): create_dir_all(dst), read_dir(src), then every
\* entry in turn, each `?` returning the error at once; [ok, node, left] with the
\* node at dst as the call leaves it
RECURSIVE CopyDirTree(_, _, _, _)
RECURSIVE CopyEntries(_, _, _, _, _)
CopyDirTree(s, dst, left, order) ==
    IF Fails(left) THEN [ok |-> FALSE, node |-> dst, left |-> left]
    ELSE LET made == IF dst.kind = "none" THEN DirNode(NoEntries) ELSE dst
         IN IF Fails(After(left)) THEN [ok |-> FALSE, node |-> made, left |-> 0]
            ELSE CopyEntries(s, order, made, After(After(left)), order)

\* the loop over the entries of s still to do, acc being dst so far
CopyEntries(s, todo, acc, left, order) ==
    IF todo = <<>> THEN [ok |-> TRUE, node |-> acc, left |-> left]
    ELSE LET name == Head(todo)
             rest == Tail(todo)
         IN IF name \notin DOMAIN s.entries THEN CopyEntries(s, rest, acc, left, order)
            ELSE LET e == s.entries[name]
                 IN CASE e.kind = "dir" ->
                            IF SkipsEntry(name, e) THEN CopyEntries(s, rest, acc, left, order)
                            ELSE LET r == CopyDirTree(e, NoNode, left, order)
                                     got == IF r.node.kind = "none" THEN acc
                                            ELSE DirNode(WithEntry(acc.entries, name, r.node))
                                 IN IF r.ok THEN CopyEntries(s, rest, got, r.left, order)
                                    ELSE [ok |-> FALSE, node |-> got, left |-> 0]
                      [] e.kind = "file" ->
                            IF Fails(left) THEN [ok |-> FALSE, node |-> acc, left |-> 0]
                            ELSE CopyEntries(s, rest, DirNode(WithEntry(acc.entries, name, e)),
                                             After(left), order)
                      [] e.kind = "symlink" ->
                            IF Fails(left) THEN [ok |-> FALSE, node |-> acc, left |-> 0]
                            ELSE CopyEntries(s, rest, DirNode(WithEntry(acc.entries, name, e)),
                                             After(left), order)
                      [] OTHER -> CopyEntries(s, rest, acc, left, order)

\* the number of operations a copy of s that meets no failure makes
RECURSIVE Operations(_)
RECURSIVE OperationsIn(_, _)
Operations(s) == 2 + OperationsIn(s, EntryNames)

OperationsIn(s, todo) ==
    IF todo = <<>> THEN 0
    ELSE LET name == Head(todo)
         IN (IF name \notin DOMAIN s.entries THEN 0
             ELSE IF s.entries[name].kind # "dir" THEN 1
             ELSE IF SkipsEntry(name, s.entries[name]) THEN 0
             ELSE Operations(s.entries[name]))
            + OperationsIn(s, Tail(todo))

\* copy_dir_recursive is called on a source tree and a destination that is not there
ApplyCopyDirRecursive ==
    /\ fn = ""
    /\ \E s \in DirNodes(MaxDepth), order \in ReadDirOrders :
          \E left \in -1..(Operations(s) - 1) :
             LET r == CopyDirTree(s, NoNode, left, order)
             IN /\ fn' = "copy_dir_recursive"
                /\ fargs' = [src |-> s, failing |-> left]
                /\ fret' = [ok |-> r.ok, dst |-> r.node]
    /\ UNCHANGED <<ivars, pvars, avars>>

\* the paths below the root of a tree
TreePaths ==
    UNION {[1..n -> {".git", "a"}] : n \in 1..MaxDepth}

\* what a tree has at a path
RECURSIVE NodeAt(_, _)
NodeAt(tree, path) ==
    IF path = <<>> THEN tree
    ELSE IF tree.kind = "dir" /\ Head(path) \in DOMAIN tree.entries
    THEN NodeAt(tree.entries[Head(path)], Tail(path))
    ELSE NoNode

\* the path is a directory named .git, or lies under one
InGitDir(tree, path) ==
    \E k \in 1..Len(path) :
        path[k] = ".git" /\ NodeAt(tree, SubSeq(path, 1, k)).kind = "dir"

\* C22: copy_dir_recursive returns an error exactly when an operation on some entry
\* fails; when it succeeds the destination is a directory that holds, at every path,
\* what the source holds there (a directory as a directory, a regular file with its
\* bytes, a symbolic link as a symbolic link with the same target), except that it
\* holds nothing at a directory named .git or under one, at any depth
C22_CopyDirRecursive ==
    fn = "copy_dir_recursive" =>
        /\ fret.ok <=> fargs.failing = -1
        /\ fret.ok =>
              /\ fret.dst.kind = "dir"
              /\ \A p \in TreePaths :
                    LET from == NodeAt(fargs.src, p)
                        to == NodeAt(fret.dst, p)
                    IN IF InGitDir(fargs.src, p) THEN to.kind = "none"
                       ELSE to.kind = from.kind /\ to.data = from.data

\* a tree with a directory .git that holds a file, and a directory that holds a
\* symbolic link and a directory .git, copied to the end
C22_Witness ==
    /\ fn = "copy_dir_recursive"
    /\ fret.ok
    /\ NodeAt(fargs.src, <<".git">>).kind = "dir"
    /\ NodeAt(fargs.src, <<".git", "a">>).kind = "file"
    /\ NodeAt(fargs.src, <<"a", ".git">>).kind = "dir"
    /\ NodeAt(fargs.src, <<"a", "a">>).kind = "symlink"
    /\ NodeAt(fret.dst, <<"a", "a">>).kind = "symlink"
    /\ NodeAt(fret.dst, <<"a", "a">>).data = "target"
    /\ NodeAt(fret.dst, <<".git">>).kind = "none"
    /\ NodeAt(fret.dst, <<"a", ".git">>).kind = "none"

\* a copy that fails on a file one level down, after it wrote a file named .git
C22_WitnessAborted ==
    /\ fn = "copy_dir_recursive"
    /\ ~fret.ok
    /\ fargs.failing > 2
    /\ NodeAt(fargs.src, <<".git">>).kind = "file"
    /\ NodeAt(fargs.src, <<"a", "a">>).kind = "file"
    /\ NodeAt(fret.dst, <<".git">>).kind = "file"
    /\ NodeAt(fret.dst, <<"a">>).kind = "dir"
    /\ NodeAt(fret.dst, <<"a", "a">>).kind = "none"

\* ------------------------------------------------------------------ git URLs
\* Option<String>
None == [some |-> FALSE, value |-> <<>>]

Some(value) == [some |-> TRUE, value |-> value]

\* str::find(c): the place of the first c, 0 for None
Find(s, c) ==
    IF \E i \in 1..Len(s) : s[i] = c
    THEN CHOOSE i \in 1..Len(s) : s[i] = c /\ \A j \in 1..(i - 1) : s[j] # c
    ELSE 0

\* str::strip_prefix(p)
StripPrefix(s, p) == IF StartsWith(s, p) THEN Some(SubSeq(s, Len(p) + 1, Len(s))) ELSE None

KeyRef == <<"r", "e", "f", "=">>

KeyTag == <<"t", "a", "g", "=">>

KeyBranch == <<"b", "r", "a", "n", "c", "h", "=">>

KeyPath == <<"p", "a", "t", "h", "=">>

\* the value found first is kept
AssignedKeepsFirst(old, new) == IF old.some THEN old ELSE new

\* `git_ref = Some(..)`, `path = Some(..)`: the assignment replaces what was there
Assigned(old, new) == new

\* the loop over the parts of the fragment
RECURSIVE FragmentParts(_, _, _)
FragmentParts(parts, git_ref, path) ==
    IF parts = <<>> THEN [git_ref |-> git_ref, path |-> path]
    ELSE LET part == Head(parts)
         IN IF StripPrefix(part, KeyRef).some
            THEN FragmentParts(Tail(parts), Assigned(git_ref, StripPrefix(part, KeyRef)), path)
            ELSE IF StripPrefix(part, KeyTag).some
            THEN FragmentParts(Tail(parts), Assigned(git_ref, StripPrefix(part, KeyTag)), path)
            ELSE IF StripPrefix(part, KeyBranch).some
            THEN FragmentParts(Tail(parts), Assigned(git_ref, StripPrefix(part, KeyBranch)), path)
            ELSE IF StripPrefix(part, KeyPath).some
            THEN FragmentParts(Tail(parts), git_ref, Assigned(path, StripPrefix(part, KeyPath)))
            ELSE FragmentParts(Tail(parts), git_ref, path)

\* parse_git_url: (base_url, git_ref, path)
ParseGitUrl(url) ==
    LET hash_pos == Find(url, "#")
    IN IF hash_pos # 0
       THEN LET base_url == SubSeq(url, 1, hash_pos - 1)
                fragment == SubSeq(url, hash_pos + 1, Len(url))
                r == FragmentParts(Split(fragment, "&"), None, None)
            IN [url |-> base_url, git_ref |-> r.git_ref, path |-> r.path]
       ELSE [url |-> url, git_ref |-> None, path |-> None]

\* the most parts a fragment tried has
MaxParts == 2

\* the parts tried: each key with a value, a key the code does not know, a key with
\* no '=', an empty value, a value with '=' and with '#' in it, and the empty part
PartInputs ==
    {KeyRef \o <<"1">>, KeyTag \o <<"2">>, KeyBranch \o <<"3">>, KeyPath \o <<"s">>,
     KeyPath \o <<"t">>, <<"x", "=", "4">>, <<"r", "e", "f">>, KeyRef,
     KeyRef \o <<"a", "=", "b">>, KeyPath \o <<"a", "#", "b">>, <<"R", "e", "f", "=", "5">>,
     <<>>}

BaseInputs == {<<"u">>, <<>>, <<"u", "&">> \o KeyRef \o <<"0">>}

\* the parts with '&' between them
RECURSIVE JoinParts(_)
JoinParts(parts) ==
    IF Len(parts) = 0 THEN <<>>
    ELSE IF Len(parts) = 1 THEN parts[1]
    ELSE parts[1] \o <<"&">> \o JoinParts(Tail(parts))

\* parse_git_url is called on a base alone, or on a base, '#' and a fragment
ApplyParseGitUrl ==
    /\ fn = ""
    /\ \E base \in BaseInputs, fragment \in BOOLEAN :
          \E parts \in (IF fragment THEN UNION {[1..n -> PartInputs] : n \in 1..MaxParts}
                        ELSE {<<>>}) :
             LET url == IF fragment THEN base \o <<"#">> \o JoinParts(parts) ELSE base
             IN /\ fn' = "parse_git_url"
                /\ fargs' = [base |-> base, fragment |-> fragment, parts |-> parts, url |-> url]
                /\ fret' = ParseGitUrl(url)
    /\ UNCHANGED <<ivars, pvars, avars>>

\* the part is `key=value` for one of the keys: the place after the '=', else 0
ValueFrom(part, keys) ==
    IF \E k \in keys : Len(part) > Len(k) /\ SubSeq(part, 1, Len(k)) = k /\ part[Len(k) + 1] = "="
    THEN Find(part, "=") + 1
    ELSE 0

\* the value of the last part with one of the keys, if there is one
LastValue(parts, keys) ==
    LET with == {i \in 1..Len(parts) : ValueFrom(parts[i], keys) # 0}
    IN IF with = {} THEN None
       ELSE LET i == CHOOSE j \in with : \A k \in with : k <= j
            IN Some(SubSeq(parts[i], ValueFrom(parts[i], keys), Len(parts[i])))

\* C23: parse_git_url splits at the first '#': the URL is what is before it, and of
\* the '&'-separated parts of the fragment the last `ref=`, `tag=` or `branch=` gives
\* the ref and the last `path=` the subpath, parts with another key being ignored;
\* an input without '#' is the URL whole, with no ref and no subpath
C23_ParseGitUrl ==
    fn = "parse_git_url" =>
        /\ fret.url = fargs.base
        /\ fargs.fragment =>
              /\ fret.git_ref =
                    LastValue(fargs.parts, {<<"r", "e", "f">>, <<"t", "a", "g">>,
                                            <<"b", "r", "a", "n", "c", "h">>})
              /\ fret.path = LastValue(fargs.parts, {<<"p", "a", "t", "h">>})
        /\ ~fargs.fragment =>
              /\ fret.url = fargs.url
              /\ ~fret.git_ref.some
              /\ ~fret.path.some

\* "u#ref=1&tag=2": the tag, given last, is the ref
C23_Witness ==
    /\ fn = "parse_git_url"
    /\ fargs.base = <<"u">>
    /\ fargs.fragment
    /\ fargs.parts = <<KeyRef \o <<"1">>, KeyTag \o <<"2">>>>
    /\ fret.url = <<"u">>
    /\ fret.git_ref = Some(<<"2">>)
    /\ ~fret.path.some

\* ------------------------------------------------ publish: the run that fails
\* the run has returned an error (or aborted on the overflow check)
EndedInError ==
    /\ PublishDone
    /\ presult \notin {"ok_published", "ok_dry_run", "ok_aborted"}

\* the errors of Step 6 and Step 7
LateErrors ==
    {"err_create_tag", "err_push_tag", "err_config", "err_not_authenticated", "err_registry"}

\* C24, original wording: a publish run that ends in an error has created no tag
\* and pushed no tag: the local and the remote tags are what they were when it
\* started, also when no token is stored, the registry rejects the request or the
\* push fails
C24_AsClaimed ==
    EndedInError =>
        /\ localTags = pstart.local
        /\ remoteTags = pstart.remote

\* C24 as the code has it: a run that fails before Step 6 leaves the tags as they
\* were; one that fails later leaves at most its own tag behind, created locally if
\* the push failed, created and pushed if the registration failed
C24_ErrorsBeforeTagging ==
    EndedInError =>
        /\ presult \notin LateErrors =>
              /\ localTags = pstart.local
              /\ remoteTags = pstart.remote
        /\ localTags \in {pstart.local, pstart.local \cup {sel.tag}}
        /\ remoteTags \in {pstart.remote, pstart.remote \cup {sel.tag}}
        /\ (presult = "err_push_tag") =>
              /\ sel.tag \in localTags /\ sel.tag \notin pstart.local
              /\ remoteTags = pstart.remote
        /\ (presult \in {"err_config", "err_not_authenticated", "err_registry"}
               /\ sel.needs_create) =>
              /\ sel.tag \in localTags /\ sel.tag \notin pstart.local
              /\ sel.tag \in remoteTags
        /\ registered = pstart.registered

\* no token is stored: the run fails after it created and pushed its tag
C24_Witness ==
    /\ EndedInError
    /\ presult = "err_not_authenticated"
    /\ sel.needs_create
    /\ sel.tag \in localTags
    /\ sel.tag \in remoteTags
    /\ sel.tag \notin pstart.local
    /\ sel.tag \notin pstart.remote
    /\ registered = pstart.registered

\* the push fails: the tag stays in the local repository
C24_WitnessPush ==
    /\ EndedInError
    /\ presult = "err_push_tag"
    /\ sel.tag \in localTags
    /\ sel.tag \notin pstart.local
    /\ remoteTags = pstart.remote

\* ------------------------------------------- install: the fetch that fails
\* the run has returned because the source could not be fetched: no temporary
\* directory, git clone failed, or the fetched directory has no SKILL.md
FetchFailed ==
    /\ InstallDone
    /\ iargs.kind \in {"registry", "git"}
    /\ outcome \in {"err_tempdir", "err_clone", "err_not_skill"}

\* C25, original wording: when an install with force fails while fetching the
\* source, every directory that was installed before is still there with the
\* contents it had, for a registry install as for a git install
C25_AsClaimed ==
    (FetchFailed /\ iargs.force) =>
        \A l \in Locs : start[l].exists => fs[l] = start[l]

\* C25 as the code has it: a git install that fails while fetching has touched
\* nothing; a registry install with force has removed its target before the clone,
\* and the target is gone when the fetch fails; no other directory has changed
C25_GitKeepsRegistryRemoves ==
    (FetchFailed /\ iargs.force) =>
        /\ iargs.kind = "git" => fs = start
        /\ iargs.kind = "registry" =>
              /\ target # ""
              /\ fs[target] = AbsentDir
              /\ "remove" \in done <=> start[target].exists
              /\ \A l \in Locs \ {target} : fs[l] = start[l]

\* a registry install with force over an installed skill: the clone fails and the
\* skill is no longer installed
C25_Witness ==
    /\ FetchFailed
    /\ iargs.force
    /\ iargs.kind = "registry"
    /\ outcome = "err_clone"
    /\ start[target].exists
    /\ SkillLoadOk(start[target])
    /\ ~fs[target].exists

\* a git install with force whose clone fails, over an installed skill
C25_WitnessGit ==
    /\ FetchFailed
    /\ iargs.force
    /\ iargs.kind = "git"
    /\ outcome = "err_clone"
    /\ \E l \in Locs : start[l].exists
    /\ fs = start

\* ------------------------------------- publish: the tag and the manifest
\* the run found nothing uncommitted: the tree at HEAD, which the new tag names,
\* holds the manifest the run loaded
CleanTree == changes = 0

\* the two strings name the same version
SameVersion(a, b) ==
    /\ ParseVersion(a).ok
    /\ ParseVersion(b).ok
    /\ ParseVersion(a) = ParseVersion(b)

\* C26, original wording: in a non-interactive publish the tag that is created and
\* submitted to the registry names the version that metadata.version of the
\* manifest in the tagged tree gives, as the registry's check of the version in
\* SKILL.md against the tag demands
C26_AsClaimed ==
    (NonInteractive /\ CleanTree /\ (Happened("tag_created") \/ Happened("request_sent"))) =>
        SameVersion(sel.tag, CurrentVersion)

\* C26 as the code has it: the tag a non-interactive run creates, pushes and submits
\* is the patch bump of the manifest's version, and never names that version itself
C26_TagIsAheadOfManifest ==
    (NonInteractive /\ (Happened("tag_created") \/ Happened("request_sent"))) =>
        /\ sel.needs_create
        /\ ParseVersion(sel.tag).ok
        /\ ParseVersion(CurrentVersion).ok
        /\ ParseVersion(sel.tag).major = ParseVersion(CurrentVersion).major
        /\ ParseVersion(sel.tag).minor = ParseVersion(CurrentVersion).minor
        /\ ParseVersion(sel.tag).patch # ParseVersion(CurrentVersion).patch
        /\ ~SameVersion(sel.tag, CurrentVersion)

\* the manifest says 0.1.1, nothing is uncommitted, and the request for v0.1.2 is sent
C26_Witness ==
    /\ NonInteractive
    /\ CleanTree
    /\ manifest.version = <<"0", ".", "1", ".", "1">>
    /\ sel.tag = <<"v", "0", ".", "1", ".", "2">>
    /\ Happened("tag_created")
    /\ Happened("tag_pushed")
    /\ Happened("request_sent")

\* ---------------------------------------------------- publish: the second run
\* a non-interactive publish (no dry run) of a manifest whose patch bump is a tag of
\* the repository already, as it is after a run that created it
BumpAlreadyTagged ==
    /\ NonInteractive
    /\ ~pargs.dry_run
    /\ ParseVersion(CurrentVersion).ok
    /\ PatchBumpTag(ParseVersion(CurrentVersion)) \in pstart.local

\* the errors of the steps before the tag is selected
EarlyErrors ==
    {"err_validation", "err_git", "err_not_repo", "err_no_origin", "err_detached"}

\* one step of a run never takes a tag away, and adds one only as the selected tag,
\* new to the repository, created by `git tag`
TagsOnlyAdded ==
    /\ localTags \subseteq localTags'
    /\ remoteTags \subseteq remoteTags'
    /\ registered \subseteq registered'
    /\ localTags' # localTags =>
          /\ localTags' = localTags \cup {sel.tag}
          /\ sel.tag \notin localTags
          /\ plog' = Append(plog, "tag_created")
    /\ remoteTags' # remoteTags =>
          /\ remoteTags' = remoteTags \cup {sel.tag}
          /\ sel.tag \in localTags
    /\ plog' = Append(plog, "tag_created") => sel.tag \notin localTags

ClearAuthToken(c) ==
    LET registry_name == IF c.default_registry # "" THEN c.default_registry ELSE "stakpak"
    IN [c EXCEPT !.tokens = @ \ {registry_name}]

\* run_logout: load, "Not logged in." when no token is found, the confirmation,
\* clear_auth_token, save; what it returned and the config on disk afterwards
RunLogout ==
    /\ fn = ""
    /\ \E c \in Configs \cup {BadConfig}, answer \in PromptAnswers, saved \in BOOLEAN :
          /\ fn' = "run_logout"
          /\ fargs' = c
          /\ fret' =
                IF c = BadConfig THEN [result |-> "err_config", config |-> c]
                ELSE IF GetAuthToken(c) = "" THEN [result |-> "not_logged_in", config |-> c]
                ELSE IF answer = "error" THEN [result |-> "err_prompt", config |-> c]
                ELSE IF answer = "no" THEN [result |-> "aborted", config |-> c]
                ELSE IF ~saved THEN [result |-> "err_save", config |-> c]
                ELSE [result |-> "logged_out", config |-> ClearAuthToken(c)]
    /\ UNCHANGED <<ivars, pvars, avars>>

\* C28, original wording: after logout has cleared the auth token, get_auth_token
\* returns no token, whatever the default registry and whichever registries hold
\* tokens: a configuration that has just been logged out is never authenticated
C28_AsClaimed ==
    (fn = "run_logout" /\ fret.result = "logged_out") =>
        GetAuthToken(fret.config) = ""

\* C28 as the code has it: logout takes the token of the default registry (of
\* "stakpak" when none is set) and leaves the others; get_auth_token then still
\* returns the token of "stakpak" when another registry is the default and
\* "stakpak" holds one, and no token otherwise
C28_LogoutClearsDefaultOnly ==
    (fn = "run_logout" /\ fret.result = "logged_out") =>
        LET cleared == IF fargs.default_registry = "" THEN "stakpak" ELSE fargs.default_registry
        IN /\ fret.config.default_registry = fargs.default_registry
           /\ fret.config.tokens = fargs.tokens \ {cleared}
           /\ GetAuthToken(fret.config) =
                 (IF cleared # "stakpak" /\ "stakpak" \in fargs.tokens THEN "stakpak" ELSE "")

\* the default registry is corp, corp and stakpak hold tokens: after the logout the
\* token of stakpak is found
C28_Witness ==
    /\ fn = "run_logout"
    /\ fargs.default_registry = "corp"
    /\ fargs.tokens = {"corp", "stakpak"}
    /\ fret.result = "logged_out"
    /\ fret.config.tokens = {"stakpak"}
    /\ GetAuthToken(fret.config) = "stakpak"

\* ------------------------------------------------------------ agents: claims
\* the default agent of the loaded config is unset or names one of its agents
DefaultIsConfigured(c) == c.default_agent = NoAgent \/ c.default_agent \subseteq c.agents

\* C29: starting from a config whose default agent is unset or names a configured
\* agent, after any sequence of agent add, agent remove and agent default commands,
\* succeeding or failing, the config every command loads has a default agent that
\* is unset or names an agent of its agents map, and has every built-in agent; a
\* file that was saved names no default agent that it does not hold
C29_DefaultAgentIsConfigured ==
    /\ DefaultIsConfigured(Load(toml))
    /\ Builtins \subseteq Load(toml).agents
    /\ \A b \in {"stakpak", "claude-code", "cursor", "vscode", "copilot", "goose", "opencode"} :
          b \in Load(toml).agents
    /\ acmd.result \in {"ok", "err_create_dir"} =>
          /\ toml.exists
          /\ toml.default_agent \subseteq toml.agents
          /\ Builtins \subseteq toml.agents

\* the default agent was removed: the default is unset, the agent gone
C29_Witness ==
    /\ acmd.cmd = "remove"
    /\ acmd.result = "ok"
    /\ acmd.before.default_agent = {acmd.name}
    /\ acmd.name \in acmd.before.agents
    /\ acmd.name \notin toml.agents
    /\ toml.default_agent = NoAgent

\* a built-in agent is not removed, as the default or not
C29_WitnessBuiltin ==
    /\ acmd.cmd = "remove"
    /\ acmd.name = "cursor"
    /\ acmd.result = "err_builtin"
    /\ toml.default_agent = {"cursor"}
    /\ toml = acmd.before

\* `paks agent` commands, one after the other, on a config file that is missing, or
\* names some agents and a default that is unset or one of its agents or built in
AgentFiles ==
    {NoFile}
    \cup {[exists |-> TRUE, agents |-> custom \cup builtin, default_agent |-> d] :
            custom \in SUBSET CustomAgents,
            builtin \in {{}, {"stakpak"}, Builtins},
            d \in {NoAgent} \cup {{n} : n \in Builtins \cup CustomAgents}}

AgentInit ==
    /\ InstallAtRest
    /\ PublishAtRest
    /\ FunctionsAtRest
    /\ localTags = {} /\ remoteTags = {} /\ registered = {}
    /\ pstart = Snapshot
    /\ toml \in {f \in AgentFiles : DefaultIsConfigured(Load(f))}
    /\ acmd = [cmd |-> "", name |-> "", result |-> "", before |-> NoFile]

AgentSpec == AgentInit /\ [][AgentNext]_vars

\* ----------------------------------------------------------- specifications
\* one function applied to one input
ParsingInit ==
    /\ InstallAtRest
    /\ PublishAtRest
    /\ FunctionsAtRest
    /\ AgentsAtRest
    /\ localTags = {} /\ remoteTags = {} /\ registered = {}
    /\ pstart = Snapshot

ParsingNext ==
    \/ ApplyDetectSourceType
    \/ ApplySkillRefParse
    \/ ApplyValidate
    \/ ApplyParseVersion
    \/ ApplyFilterSemverTags
    \/ ApplyBump
    \/ ApplyCopyDirRecursive
    \/ ApplyParseGitUrl
    \/ RunLogout

ParsingSpec == ParsingInit /\ [][ParsingNext]_vars

====
